---- MODULE Spec2Model ----
(***************************************************************************)
(* Model of the binary/decimal converter (src/services/converterService.ts *)
(* and src/types.ts).                                                      *)
(*                                                                         *)
(* A JavaScript string is a sequence of one-character strings.             *)
(* A JavaScript number is one of                                           *)
(*   [k |-> "int", hi, lo]      the integer hi * 2^16 + lo, 0 <= lo < 2^16 *)
(*                              (hi may be negative), used for every       *)
(*                              integer of magnitude below 2^IntBits;      *)
(*   [k |-> "negzero"]          -0;                                        *)
(*   [k |-> "fin", neg, m, e]   any other finite value, +-m * 2^e with m   *)
(*                              an odd integer written as its bits;        *)
(*   [k |-> "inf", neg]         +-Infinity;                                *)
(*   [k |-> "nan"]              NaN.                                       *)
(* The two-limb form keeps 32-bit quantities (and 2^32) exact although the *)
(* model checker's integers are 32-bit.                                    *)
(***************************************************************************)
EXTENDS Integers, Sequences, FiniteSets, TLC

VARIABLES
    \* the explored call: its position, its arguments and its results
    pc, decimal, binary, hexString, shown, out, back,
    \* the layout and the precision: arguments of a call, state of the App
    dataType, precision,
    \* the other state of the App component
    decimalValue, binaryValue, error, lastChanged, binaryInputMode,
    \* the values of the effect dependencies at the last run of the effects
    rendered,
    \* the layout and the precision of the call of formatDecimalForDisplay
    \* made in the last step of the App, if it made one
    lastFormat,
    \* prevPrecisionRef.current of the App with the merged effect
    prevPrecisionRef

callVars == <<pc, decimal, binary, hexString, shown, out, back>>

appVars == <<decimalValue, binaryValue, error, lastChanged, binaryInputMode,
             rendered, lastFormat, prevPrecisionRef>>

vars == <<callVars, dataType, precision, appVars>>

-----------------------------------------------------------------------------
(* Bounds of the explored input space                                      *)

\* integers within Radius of every anchor value are encoded
Radius == 2
\* every bit string of length 0..MaxShort is decoded
MaxShort == 5
\* every bit pattern of length 0..HeadLen is used as the head of a long string
HeadLen == 2
\* every string of length 2..MaxHexLen over HexSample is read as hexadecimal
MaxHexLen == 3

-----------------------------------------------------------------------------
(* Sequences of characters                                                 *)

\* String.prototype.repeat; the empty string for n <= 0
Repeat(c, n) == [i \in 1..(IF n < 0 THEN 0 ELSE n) |-> c]

\* the concatenation of the first n strings of parts
RECURSIVE ConcatUpTo(_, _)
ConcatUpTo(parts, n) == IF n = 0 THEN <<>> ELSE ConcatUpTo(parts, n - 1) \o parts[n]

\* the element of a set of one element; Only({F(x) : x \in {value}}) is
\* const x = value; F(x), the value being computed once
Only(S) == CHOOSE y \in S : TRUE

\* padStart that never pads
padStartNone(s, targetLength, c) == s

\* padStart that appends the padding
padStartAtEnd(s, targetLength, c) ==
    IF Len(s) >= targetLength THEN s ELSE s \o Repeat(c, targetLength - Len(s))

\* String.prototype.padStart(targetLength, padString) for a one-character pad
padStart(s, targetLength, c) ==
    IF Len(s) >= targetLength THEN s ELSE Repeat(c, targetLength - Len(s)) \o s

\* String.prototype.substring(start, end) with 0-based, end-exclusive indices
substring(s, start, end) ==
    LET a == IF start < 0 THEN 0 ELSE IF start > Len(s) THEN Len(s) ELSE start
        b == IF end < 0 THEN 0 ELSE IF end > Len(s) THEN Len(s) ELSE end
        lo == IF a < b THEN a ELSE b
        hi == IF a < b THEN b ELSE a
    IN  SubSeq(s, lo + 1, hi)

BinaryDigits == {"0", "1"}

\* /^[01]+/.test(s): the pattern without the end anchor
TestBinaryStart(s) == Len(s) > 0 /\ s[1] \in BinaryDigits

\* /^[01]+$/.test(s): no m flag, so $ matches at the very end only
TestBinaryPlus(s) == Len(s) > 0 /\ \A i \in 1..Len(s) : s[i] \in BinaryDigits

-----------------------------------------------------------------------------
(* JavaScript numbers                                                      *)

Base == 2^16

Norm(h, l) == [k |-> "int", hi |-> h + (l \div Base), lo |-> l % Base]

\* the number with the (small) integer value n
Num(n) == Norm(0, n)

Zero == Num(0)
NegZero == [k |-> "negzero"]
NaN == [k |-> "nan"]
Infinity(neg) == [k |-> "inf", neg |-> neg]
Fin(neg, m, e) == [k |-> "fin", neg |-> neg, m |-> m, e |-> e]

\* -0 takes part in integer arithmetic as 0
Limbs(x) == IF x.k = "negzero" THEN Zero ELSE x

IsLimbs(x) == x.k \in {"int", "negzero"}

IntAdd(a, b) == Norm(a.hi + b.hi, a.lo + b.lo)
IntNeg(a) == Norm(-a.hi, -a.lo)
IntSub(a, b) == IntAdd(a, IntNeg(b))
IntLess(a, b) == a.hi < b.hi \/ (a.hi = b.hi /\ a.lo < b.lo)
IntAbs(a) == IF IntLess(a, Zero) THEN IntNeg(a) ELSE a

\* Math.pow(2, n - 1)
MathPow2Short(n) == IF n <= 16 THEN Norm(0, 2^(n - 1)) ELSE Norm(2^(n - 17), 0)

\* Math.pow(2, n) for 0 <= n <= 32
MathPow2(n) == IF n < 16 THEN Norm(0, 2^n) ELSE Norm(2^(n - 16), 0)

\* integers of fewer than IntBits + 1 bits are kept in limb form
IntBits == 40

\* the w-digit binary numeral (0/1 values) of the small natural n
NatBits(n, w) == [i \in 1..w |-> (n \div 2^(w - i)) % 2]

\* the small natural with binary digits bs[1..n]
RECURSIVE BitsNatUpTo(_, _)
BitsNatUpTo(bs, n) == IF n = 0 THEN 0 ELSE 2 * BitsNatUpTo(bs, n - 1) + bs[n]

BitsNat(bs) == BitsNatUpTo(bs, Len(bs))

Ones(bs) == {i \in 1..Len(bs) : bs[i] = 1}
First(S) == CHOOSE i \in S : \A j \in S : i <= j
Last(S) == CHOOSE i \in S : \A j \in S : j <= i

StripLeadingZeros(bs) ==
    IF Ones(bs) = {} THEN <<>> ELSE SubSeq(bs, First(Ones(bs)), Len(bs))

TrailingZeros(bs) == IF Ones(bs) = {} THEN Len(bs) ELSE Len(bs) - Last(Ones(bs))

\* the binary digits (0/1, most significant first) of a non-negative integer;
\* the empty sequence for 0
IntBitsOf(a) == StripLeadingZeros(NatBits(a.hi, IntBits - 16) \o NatBits(a.lo, 16))

\* the integer whose binary digits (0/1, most significant first) are bs
IntOfBits(bs) ==
    LET n == Len(bs)
    IN  IF n <= 16 THEN Norm(0, BitsNat(bs))
        ELSE Norm(BitsNat(SubSeq(bs, 1, n - 16)), BitsNat(SubSeq(bs, n - 15, n)))

\* a finite non-zero number as sign, odd mantissa bits and exponent
Dyadic(x) ==
    IF x.k = "fin" THEN [neg |-> x.neg, m |-> x.m, e |-> x.e]
    ELSE LET bs == IntBitsOf(IntAbs(x))
             tz == TrailingZeros(bs)
         IN  [neg |-> IntLess(x, Zero), m |-> SubSeq(bs, 1, Len(bs) - tz), e |-> tz]

\* the number +-m * 2^e (m given by its bits, not all zero) in canonical form
MakeFinite(neg, bits, exp) ==
    LET s  == StripLeadingZeros(bits)
        tz == TrailingZeros(s)
        m  == SubSeq(s, 1, Len(s) - tz)
        e  == exp + tz
    IN  IF e >= 0 /\ Len(m) + e <= IntBits
        THEN LET v == IntOfBits(m \o Repeat(0, e)) IN IF neg THEN IntNeg(v) ELSE v
        ELSE Fin(neg, m, e)

\* -1, 0 or 1
Sign(x) ==
    CASE x.k = "negzero" -> 0
      [] x.k = "int" -> IF x = Zero THEN 0 ELSE IF IntLess(x, Zero) THEN -1 ELSE 1
      [] x.k \in {"fin", "inf"} -> IF x.neg THEN -1 ELSE 1

\* a < b for two binary fractions 0.a and 0.b
BitsLess(a, b) ==
    LET n  == IF Len(a) < Len(b) THEN Len(b) ELSE Len(a)
        pa == a \o Repeat(0, n - Len(a))
        pb == b \o Repeat(0, n - Len(b))
        D  == {i \in 1..n : pa[i] # pb[i]}
    IN  D # {} /\ pa[First(D)] = 0

\* |a| < |b| for numbers that are neither zero nor NaN
MagLess(a, b) ==
    IF a.k = "inf" THEN FALSE
    ELSE IF b.k = "inf" THEN TRUE
    ELSE LET da == Dyadic(a)
             db == Dyadic(b)
             ta == da.e + Len(da.m)
             tb == db.e + Len(db.m)
         IN  IF ta # tb THEN ta < tb ELSE BitsLess(da.m, db.m)

\* <= in place of <
NumLessOrEqual(a, b) ==
    IF a.k = "nan" \/ b.k = "nan" THEN FALSE
    ELSE IF IsLimbs(a) /\ IsLimbs(b) THEN ~IntLess(Limbs(b), Limbs(a))
    ELSE LET sa == Sign(a)
             sb == Sign(b)
         IN  IF sa # sb THEN sa < sb
             ELSE IF sa = 0 THEN TRUE
             ELSE IF sa = 1 THEN ~MagLess(b, a)
             ELSE ~MagLess(a, b)

\* the < operator of JavaScript numbers
NumLess(a, b) ==
    IF a.k = "nan" \/ b.k = "nan" THEN FALSE
    ELSE IF IsLimbs(a) /\ IsLimbs(b) THEN IntLess(Limbs(a), Limbs(b))
    ELSE LET sa == Sign(a)
             sb == Sign(b)
         IN  IF sa # sb THEN sa < sb
             ELSE IF sa = 0 THEN FALSE
             ELSE IF sa = 1 THEN MagLess(a, b)
             ELSE MagLess(b, a)

\* Number.isInteger
NumberIsInteger(x) ==
    CASE x.k \in {"int", "negzero"} -> TRUE
      [] x.k = "fin" -> x.e >= 0
      [] x.k \in {"inf", "nan"} -> FALSE

BitChar(b) == IF b = 1 THEN "1" ELSE "0"

BitChars(bs) == [i \in 1..Len(bs) |-> BitChar(bs[i])]

\* Number.prototype.toString(2) of an integer-valued number
toString2(x) ==
    LET a == Limbs(x)
    IN  IF a = Zero THEN <<"0">>
        ELSE IF IntLess(a, Zero) THEN <<"-">> \o BitChars(IntBitsOf(IntNeg(a)))
        ELSE BitChars(IntBitsOf(a))

\* the longest prefix of s made of binary digits, as 0/1 values
BinaryPrefix(s) ==
    LET Stop == {i \in 1..Len(s) : s[i] \notin BinaryDigits}
        n    == IF Stop = {} THEN Len(s) ELSE First(Stop) - 1
    IN  [i \in 1..n |-> IF s[i] = "1" THEN 1 ELSE 0]

\* parseInt(s, 2) for a string without sign or leading white space
parseInt2(s) ==
    LET p == BinaryPrefix(s) IN IF p = <<>> THEN NaN ELSE IntOfBits(p)

-----------------------------------------------------------------------------
(* src/types.ts                                                            *)

DataType == {"Int8", "UInt8", "Int16", "UInt16", "Int32", "UInt32", "Float32", "Float64"}

\* min and max of the two float layouts are never read by the converter and
\* are left out
DATA_TYPE_DETAILS ==
    [t \in DataType |->
       CASE t = "Int8"    -> [bits |-> 8, signed |-> TRUE, isFloat |-> FALSE,
                              min |-> Num(-128), max |-> Num(127)]
         [] t = "UInt8"   -> [bits |-> 8, signed |-> FALSE, isFloat |-> FALSE,
                              min |-> Num(0), max |-> Num(255)]
         [] t = "Int16"   -> [bits |-> 16, signed |-> TRUE, isFloat |-> FALSE,
                              min |-> Num(-32768), max |-> Num(32767)]
         [] t = "UInt16"  -> [bits |-> 16, signed |-> FALSE, isFloat |-> FALSE,
                              min |-> Num(0), max |-> Num(65535)]
         [] t = "Int32"   -> [bits |-> 32, signed |-> TRUE, isFloat |-> FALSE,
                              min |-> Norm(-32768, 0), max |-> Norm(32767, 65535)]
         [] t = "UInt32"  -> [bits |-> 32, signed |-> FALSE, isFloat |-> FALSE,
                              min |-> Num(0), max |-> Norm(65535, 65535)]
         [] t = "Float32" -> [bits |-> 32, signed |-> TRUE, isFloat |-> TRUE]
         [] t = "Float64" -> [bits |-> 64, signed |-> TRUE, isFloat |-> TRUE]]

IntegerTypes == {t \in DataType : ~DATA_TYPE_DETAILS[t].isFloat}
FloatTypes == {t \in DataType : DATA_TYPE_DETAILS[t].isFloat}

-----------------------------------------------------------------------------
(* DataView: IEEE 754 binary32 / binary64, big-endian                      *)

\* bs + 1 on a fixed-width bit vector
Increment(bs) ==
    LET Z == {i \in 1..Len(bs) : bs[i] = 0}
        j == IF Z = {} THEN 0 ELSE Last(Z)
    IN  [i \in 1..Len(bs) |-> IF i < j THEN bs[i] ELSE IF i = j THEN 1 ELSE 0]

ExponentBits(bits) == IF bits = 32 THEN 8 ELSE 11

\* exponent and fraction fields of the finite non-zero number d = +-m * 2^e,
\* rounded to nearest, ties to even
FiniteFields(d, bits) ==
    LET expBits == ExponentBits(bits)
        manBits == bits - 1 - expBits
        bias    == 2^(expBits - 1) - 1
        emin    == 1 - bias
        p       == Len(d.m)
        E       == d.e + p - 1
        \* the digits of the significand from the first fraction position on
        digits  == IF E >= emin THEN Tail(d.m)
                   ELSE Repeat(0, emin - E - 1) \o d.m
        kept    == SubSeq(digits \o Repeat(0, manBits - Len(digits)), 1, manBits)
        rest    == SubSeq(digits, manBits + 1, Len(digits))
        field   == (IF E >= emin THEN NatBits(E + bias, expBits)
                    ELSE Repeat(0, expBits)) \o kept
        roundUp == /\ rest # <<>>
                   /\ rest[1] = 1
                   /\ \/ \E i \in 2..Len(rest) : rest[i] = 1
                      \/ field[Len(field)] = 1
    IN  IF E > bias THEN Repeat(1, expBits) \o Repeat(0, manBits)
        ELSE IF roundUp THEN Increment(field) ELSE field

\* the encoding that writes -0 as +0
IEEEBitsUnsignedZero(x, bits) ==
    LET expBits == ExponentBits(bits)
        manBits == bits - 1 - expBits
    IN  CASE x.k = "nan"     -> <<0>> \o Repeat(1, expBits) \o <<1>> \o Repeat(0, manBits - 1)
          [] x.k = "inf"     -> <<IF x.neg THEN 1 ELSE 0>> \o Repeat(1, expBits) \o Repeat(0, manBits)
          [] x.k = "negzero" -> Repeat(0, bits)
          [] x = Zero        -> Repeat(0, bits)
          [] OTHER           -> LET d == Dyadic(x)
                                IN  <<IF d.neg THEN 1 ELSE 0>> \o FiniteFields(d, bits)

\* the bits of the IEEE 754 encoding of x in a format of the given width;
\* a NaN is written as the quiet NaN with the top fraction bit set
IEEEBits(x, bits) ==
    LET expBits == ExponentBits(bits)
        manBits == bits - 1 - expBits
    IN  CASE x.k = "nan"     -> <<0>> \o Repeat(1, expBits) \o <<1>> \o Repeat(0, manBits - 1)
          [] x.k = "inf"     -> <<IF x.neg THEN 1 ELSE 0>> \o Repeat(1, expBits) \o Repeat(0, manBits)
          [] x.k = "negzero" -> <<1>> \o Repeat(0, bits - 1)
          [] x = Zero        -> Repeat(0, bits)
          [] OTHER           -> LET d == Dyadic(x)
                                IN  <<IF d.neg THEN 1 ELSE 0>> \o FiniteFields(d, bits)

\* the bytes of a bit vector, first eight bits first
BytesOfBits(bs) == [i \in 1..(Len(bs) \div 8) |-> BitsNat(SubSeq(bs, 8 * i - 7, 8 * i))]

BitsOfBytes(buffer) ==
    [i \in 1..(8 * Len(buffer)) |-> NatBits(buffer[((i - 1) \div 8) + 1], 8)[((i - 1) % 8) + 1]]

\* the buffer written with the littleEndian flag set: last byte first
setFloatLittleEndian(x, bits) ==
    [i \in 1..(bits \div 8) |-> BytesOfBits(IEEEBits(x, bits))[(bits \div 8) + 1 - i]]

\* view.setFloat32(0, x, false) / view.setFloat64(0, x, false): the buffer
\* contents, byte 0 first
setFloat(x, bits) == BytesOfBits(IEEEBits(x, bits))

\* view.getFloat32(0, false) / view.getFloat64(0, false)
getFloat(buffer, bits) ==
    LET bs       == BitsOfBytes(buffer)
        expBits  == ExponentBits(bits)
        manBits  == bits - 1 - expBits
        bias     == 2^(expBits - 1) - 1
        neg      == bs[1] = 1
        expField == BitsNat(SubSeq(bs, 2, 1 + expBits))
        man      == SubSeq(bs, 2 + expBits, bits)
        manZero  == \A i \in 1..Len(man) : man[i] = 0
    IN  IF expField = 2^expBits - 1
        THEN IF manZero THEN Infinity(neg) ELSE NaN
        ELSE IF expField = 0
        THEN IF manZero THEN (IF neg THEN NegZero ELSE Zero)
             ELSE MakeFinite(neg, man, 1 - bias - manBits)
        ELSE MakeFinite(neg, <<1>> \o man, expField - bias - manBits)

\* view.setUint8(i, x): ToUint8 of an integer-valued number or NaN
ToUint8(x) == IF x.k = "nan" THEN 0 ELSE Limbs(x).lo % 256

-----------------------------------------------------------------------------
(* src/services/converterService.ts                                        *)

\* Array.prototype.join
join(parts, separator) ==
    IF parts = <<>> THEN <<>>
    ELSE ConcatUpTo([i \in 1..(2 * Len(parts) - 1) |->
                        IF i % 2 = 1 THEN parts[(i + 1) \div 2] ELSE separator],
                    2 * Len(parts) - 1)

\* Boolean(s) of a string
IsTruthy(s) == s # <<>>

\* Array.prototype.filter(Boolean) on an array of strings
filterBoolean(parts) == SelectSeq(parts, IsTruthy)

\* exponentLength with the two widths exchanged
ExponentLengthSwapped(type) == IF type = "Float32" THEN 11 ELSE 8

\* exponentLength of formatBinaryString
ExponentLength(type) == IF type = "Float32" THEN 8 ELSE 11

\* chunks of eight counted from the first character
IntegerPartsFromLeft(bin) ==
    [k \in 1..((Len(bin) + 7) \div 8) |-> substring(bin, 8 * (k - 1), 8 * k)]

\* the loop for (i = binary.length; i > 0; i -= 8) with parts.unshift: the
\* k-th part of the finished array is the one taken at i = length - 8 (n - k)
IntegerParts(bin) ==
    LET n == (Len(bin) + 7) \div 8
    IN  [k \in 1..n |->
            LET i == Len(bin) - 8 * (n - k)
            IN  substring(bin, IF i - 8 > 0 THEN i - 8 ELSE 0, i)]

formatBinaryString(bin, type) ==
    IF bin = <<>> THEN <<>>
    ELSE IF DATA_TYPE_DETAILS[type].isFloat
    THEN LET signBitEnd     == 1
             exponentLength == ExponentLength(type)
             exponentEnd    == signBitEnd + exponentLength
             sign           == substring(bin, 0, signBitEnd)
             exponent       == substring(bin, signBitEnd, exponentEnd)
             mantissa       == substring(bin, exponentEnd, Len(bin))
         IN  join(filterBoolean(<<sign, exponent, mantissa>>), <<" ">>)
    ELSE join(IntegerParts(bin), <<" ">>)

\* ConversionResult / NumberConversionResult: a value or { error }
Ok(v) == [ok |-> TRUE, value |-> v]
Err(msg) == [ok |-> FALSE, error |-> msg]

\* an exception that leaves the function: the call returns no result
Thrown(name) == [ok |-> FALSE, thrown |-> name]

\* the bounds test of the DataView accessors: a get or set of size bytes at
\* byteOffset throws a RangeError unless it lies within the buffer
RangeError(byteOffset, size, byteLength) ==
    byteOffset < 0 \/ byteOffset + size > byteLength

\* the bytes written by setFloat32 / setFloat64 and read by getFloat32 /
\* getFloat64, chosen by dataType === DataType.Float32
FloatBytes(type) == IF type = "Float32" THEN 4 ELSE 8

\* the loop bound written as i <= details.bits / 8
ByteIndicesInclusive(bits) == 0..(bits \div 8)

\* for (let i = 0; i < details.bits / 8; i++)
ByteIndices(bits) == 0..((bits \div 8) - 1)

\* the output loop over the bytes of the view
BufferString(buffer) ==
    ConcatUpTo([i \in 1..Len(buffer) |-> padStart(toString2(Num(buffer[i])), 8, "0")],
               Len(buffer))

convertDecimalToBinary(dec, type) ==
    LET details == DATA_TYPE_DETAILS[type]
    IN  IF ~details.isFloat
        THEN IF ~NumberIsInteger(dec)
             THEN Err("Only integers are allowed for this data type.")
             ELSE IF NumLess(dec, details.min) \/ NumLess(details.max, dec)
             THEN Err("Value out of range for " \o type \o ".")
             ELSE LET bin == IF details.signed /\ NumLess(dec, Zero)
                             THEN toString2(IntAdd(Limbs(dec), MathPow2(details.bits)))
                             ELSE toString2(dec)
                  IN  Ok(padStart(bin, details.bits, "0"))
        ELSE LET byteLength == details.bits \div 8
             IN  \* try { view.setFloat..(0, decimal, false) } catch
                 IF RangeError(0, FloatBytes(type), byteLength)
                 THEN Err("Invalid floating point number.")
                 \* view.getUint8(i) in the output loop
                 ELSE IF \E i \in ByteIndices(details.bits) : RangeError(i, 1, byteLength)
                 THEN Thrown("RangeError")
                 ELSE Ok(BufferString(setFloat(dec, details.bits)))

\* the loop that fills the view byte by byte
BufferOfString(paddedBinary, bits) ==
    [i \in 1..(bits \div 8) |->
        ToUint8(parseInt2(substring(paddedBinary, (i - 1) * 8, i * 8)))]

\* the length test against the widest layout
ExceedsWidest(bin, details) == Len(bin) > 64

\* the length test: binary.length > details.bits
ExceedsWidth(bin, details) == Len(bin) > details.bits

\* the integer branch without the two's-complement step
DecodeIntegerUnsigned(paddedBinary, details) == parseInt2(paddedBinary)

\* the integer branch without the test of details.signed
DecodeIntegerAnyLayout(paddedBinary, details) ==
    LET value == parseInt2(paddedBinary)
    IN  IF paddedBinary[1] = "1"
        THEN IntSub(value, MathPow2(details.bits))
        ELSE value

\* the integer branch: the value of the full-width string, two's complement
\* when the layout is signed and the first bit is set
DecodeInteger(paddedBinary, details) ==
    LET value == parseInt2(paddedBinary)
    IN  IF details.signed /\ paddedBinary[1] = "1"
        THEN IntSub(value, MathPow2(details.bits))
        ELSE value

convertBinaryToDecimal(bin, type) ==
    LET details == DATA_TYPE_DETAILS[type]
        paddedBinary == padStart(bin, details.bits, "0")
    IN  IF ~TestBinaryPlus(bin)
        THEN Err("Invalid binary string.")
        ELSE IF ExceedsWidth(bin, details)
        THEN Err("Binary string exceeds " \o ToString(details.bits) \o " bits for " \o type \o ".")
        ELSE IF ~details.isFloat
        THEN Ok(DecodeInteger(paddedBinary, details))
        ELSE LET byteLength == details.bits \div 8
             IN  \* view.setUint8(i, ..) in the loop, then view.getFloat..(0, false)
                 IF \/ \E i \in ByteIndices(details.bits) : RangeError(i, 1, byteLength)
                    \/ RangeError(0, FloatBytes(type), byteLength)
                 THEN Thrown("RangeError")
                 ELSE Ok(getFloat(BufferOfString(paddedBinary, details.bits), details.bits))

\* one lowercase digit of Number.prototype.toString(16) for 0 <= n < 16
toString16(n) ==
    <<"0", "1", "2", "3", "4", "5", "6", "7", "8", "9", "a", "b", "c", "d", "e", "f">>[n + 1]

\* String.prototype.toUpperCase on the characters used here
toUpperCase(c) ==
    CASE c = "a" -> "A" [] c = "b" -> "B" [] c = "c" -> "C"
      [] c = "d" -> "D" [] c = "e" -> "E" [] c = "f" -> "F"
      [] OTHER -> c

\* parseInt(c, 16) of one hexadecimal digit
parseInt16(c) ==
    CASE c = "0" -> 0 [] c = "1" -> 1 [] c = "2" -> 2 [] c = "3" -> 3
      [] c = "4" -> 4 [] c = "5" -> 5 [] c = "6" -> 6 [] c = "7" -> 7
      [] c = "8" -> 8 [] c = "9" -> 9
      [] c \in {"a", "A"} -> 10 [] c \in {"b", "B"} -> 11
      [] c \in {"c", "C"} -> 12 [] c \in {"d", "D"} -> 13
      [] c \in {"e", "E"} -> 14 [] c \in {"f", "F"} -> 15

\* the character class without the uppercase letters
HexDigitCharsLower ==
    {"0", "1", "2", "3", "4", "5", "6", "7", "8", "9", "a", "b", "c", "d", "e", "f"}

HexDigitChars ==
    {"0", "1", "2", "3", "4", "5", "6", "7", "8", "9",
     "a", "b", "c", "d", "e", "f", "A", "B", "C", "D", "E", "F"}

\* the characters matched by \s that occur in the inputs
WhiteSpace == {" ", "\t", "\n"}

\* s.replace(/\s/g, '')
NotWhiteSpace(c) == c \notin WhiteSpace
RemoveWhiteSpace(s) == SelectSeq(s, NotWhiteSpace)

\* the loop over the 4-character chunks of padded
HexOfPadded(padded) ==
    [i \in 1..((Len(padded) + 3) \div 4) |->
        LET chunk == substring(padded, (i - 1) * 4, i * 4)
        IN  toUpperCase(toString16(Limbs(parseInt2(chunk)).lo))]

\* the conversion without the padStart to a multiple of four
convertBinaryToHexUnpadded(bin) ==
    IF bin = <<>> \/ ~TestBinaryPlus(bin) THEN <<>> ELSE HexOfPadded(bin)

convertBinaryToHex(bin) ==
    IF bin = <<>> \/ ~TestBinaryPlus(bin) THEN <<>>
    ELSE LET remainder == Len(bin) % 4
             padding   == IF remainder = 0 THEN 0 ELSE 4 - remainder
             padded    == padStart(bin, Len(bin) + padding, "0")
         IN  HexOfPadded(padded)

\* the loop over the digits without padStart(4, '0')
BinaryOfHexUnpadded(sanitizedHex) ==
    ConcatUpTo([i \in 1..Len(sanitizedHex) |->
                   toString2(Num(parseInt16(sanitizedHex[i])))],
               Len(sanitizedHex))

\* the loop over the digits of sanitizedHex
BinaryOfHex(sanitizedHex) ==
    ConcatUpTo([i \in 1..Len(sanitizedHex) |->
                   padStart(toString2(Num(parseInt16(sanitizedHex[i]))), 4, "0")],
               Len(sanitizedHex))

convertHexToBinary(hex) ==
    LET sanitizedHex == RemoveWhiteSpace(hex)
    IN  IF \E i \in 1..Len(sanitizedHex) : sanitizedHex[i] \notin HexDigitChars
        THEN Err("Invalid hexadecimal string.")
        ELSE Ok(BinaryOfHex(sanitizedHex))

-----------------------------------------------------------------------------
(* src/App.tsx: the display of a decoded number                            *)
(*                                                                         *)
(* Where a number is printed it is given in the form that                  *)
(* Number::toString works on: Zero, NegZero, NaN, Infinity(neg), or        *)
(*   [k |-> "dec", neg, digits, n]   +-0.d1 d2 .. dk * 10^n, the k digits  *)
(*                                   being the shortest that identify the  *)
(*                                   number, d1 and dk not '0'.            *)

Dec(neg, digits, n) == [k |-> "dec", neg |-> neg, digits |-> digits, n |-> n]

DecimalDigits == <<"0", "1", "2", "3", "4", "5", "6", "7", "8", "9">>

IsDigit(c) == \E i \in 1..10 : DecimalDigits[i] = c

\* the decimal numeral of a natural number
RECURSIVE NatString(_)
NatString(i) ==
    IF i < 10 THEN <<DecimalDigits[i + 1]>>
    ELSE NatString(i \div 10) \o <<DecimalDigits[(i % 10) + 1]>>

\* String(num), Number::toString with radix 10
NumberToString(x) ==
    CASE x.k = "nan" -> <<"N", "a", "N">>
      [] x.k = "negzero" \/ x = Zero -> <<"0">>
      [] x.k = "inf" -> (IF x.neg THEN <<"-">> ELSE <<>>)
                            \o <<"I", "n", "f", "i", "n", "i", "t", "y">>
      [] x.k = "dec" ->
            LET k    == Len(x.digits)
                n    == x.n
                sign == IF x.neg THEN <<"-">> ELSE <<>>
                e    == n - 1
                exponent == <<"e", IF e < 0 THEN "-" ELSE "+">>
                                \o NatString(IF e < 0 THEN -e ELSE e)
            IN  sign \o
                (IF k <= n /\ n <= 21 THEN x.digits \o Repeat("0", n - k)
                 ELSE IF 0 < n /\ n <= 21
                 THEN SubSeq(x.digits, 1, n) \o <<".">> \o SubSeq(x.digits, n + 1, k)
                 ELSE IF -6 < n /\ n <= 0
                 THEN <<"0", ".">> \o Repeat("0", -n) \o x.digits
                 ELSE IF k = 1 THEN x.digits \o exponent
                 ELSE <<x.digits[1], ".">> \o SubSeq(x.digits, 2, k) \o exponent)

\* isFinite(num)
isFinite(x) == x.k \notin {"nan", "inf"}

\* String.prototype.includes for a one-character search string
includes(s, c) == \E i \in 1..Len(s) : s[i] = c

\* String.prototype.padEnd(targetLength, padString) for a one-character pad
padEnd(s, targetLength, c) ==
    IF Len(s) >= targetLength THEN s ELSE s \o Repeat(c, targetLength - Len(s))

\* String.prototype.slice(start, end)
slice(s, start, end) ==
    LET from == IF start < 0 THEN (IF Len(s) + start < 0 THEN 0 ELSE Len(s) + start)
                ELSE IF start > Len(s) THEN Len(s) ELSE start
        to   == IF end < 0 THEN (IF Len(s) + end < 0 THEN 0 ELSE Len(s) + end)
                ELSE IF end > Len(s) THEN Len(s) ELSE end
    IN  SubSeq(s, from + 1, to)

\* the value of a string of decimal digits
RECURSIVE DigitsValue(_)
DigitsValue(ds) ==
    IF ds = <<>> THEN 0
    ELSE 10 * DigitsValue(SubSeq(ds, 1, Len(ds) - 1))
            + ((CHOOSE i \in 1..10 : DecimalDigits[i] = ds[Len(ds)]) - 1)

\* parseInt(s, 10) of a sign followed by decimal digits
parseInt10(s) ==
    IF s[1] = "-" THEN -DigitsValue(Tail(s))
    ELSE IF s[1] = "+" THEN DigitsValue(Tail(s))
    ELSE DigitsValue(s)

\* numStr.match(/^(-?)(\d)\.?(\d*)e([+-]\d+)$/): the groups, or no match
NoMatch == [matched |-> FALSE]

MatchScientific(numStr) ==
    LET sign == IF numStr # <<>> /\ numStr[1] = "-" THEN <<"-">> ELSE <<>>
        rest == SubSeq(numStr, Len(sign) + 1, Len(numStr))
        es   == {i \in 1..Len(rest) : rest[i] = "e"}
    IN  IF es = {} THEN NoMatch
        ELSE LET ePos     == First(es)
                 mantissa == SubSeq(rest, 1, ePos - 1)
                 exponent == SubSeq(rest, ePos + 1, Len(rest))
                 fracPart == IF Len(mantissa) >= 2 /\ mantissa[2] = "."
                             THEN SubSeq(mantissa, 3, Len(mantissa))
                             ELSE SubSeq(mantissa, 2, Len(mantissa))
             IN  IF /\ mantissa # <<>>
                    /\ IsDigit(mantissa[1])
                    /\ \A i \in 1..Len(fracPart) : IsDigit(fracPart[i])
                    /\ Len(exponent) >= 2
                    /\ exponent[1] \in {"+", "-"}
                    /\ \A i \in 2..Len(exponent) : IsDigit(exponent[i])
                 THEN [matched |-> TRUE, sign |-> sign, intPart |-> <<mantissa[1]>>,
                       fracPart |-> fracPart, exp |-> exponent]
                 ELSE NoMatch

\* toNonScientific that returns String(num) as it is
toNonScientificRaw(x) == NumberToString(x)

toNonScientific(x) ==
    LET numStr == NumberToString(x)
        match  == MatchScientific(numStr)
    IN  IF ~includes(numStr, "e") THEN numStr
        ELSE IF ~match.matched THEN numStr
        ELSE LET exp         == parseInt10(match.exp)
                 fracPart    == match.fracPart
                 wholeNumStr == match.intPart \o fracPart
             IN  match.sign \o
                 (IF exp > 0
                  THEN IF exp >= Len(fracPart)
                       THEN padEnd(wholeNumStr, Len(wholeNumStr) + exp - Len(fracPart), "0")
                       ELSE slice(wholeNumStr, 0, exp + 1) \o <<".">>
                                \o slice(wholeNumStr, exp + 1, Len(wholeNumStr))
                  ELSE <<"0", ".">> \o Repeat("0", (-exp) - 1) \o wholeNumStr)

\* (0).toFixed(precision)
ZeroToFixed(prec) ==
    IF prec = 0 THEN <<"0">> ELSE <<"0", ".">> \o Repeat("0", prec)

\* String.prototype.split('.'): the pieces between the points
splitPoint(s) ==
    LET points == {i \in 1..Len(s) : s[i] = "."}
        bounds == points \cup {0, Len(s) + 1}
    IN  [j \in 1..(Cardinality(points) + 1) |->
            LET from == CHOOSE b \in bounds : Cardinality({c \in bounds : c < b}) = j - 1
                to   == CHOOSE b \in bounds : Cardinality({c \in bounds : c < b}) = j
            IN  SubSeq(s, from + 1, to - 1)]

formatDecimalForDisplay(x, prec) ==
    IF ~isFinite(x) THEN NumberToString(x)
    ELSE IF x.k = "negzero" \/ x = Zero THEN ZeroToFixed(prec)
    ELSE LET fullDecimalString == toNonScientific(x)
             pieces      == splitPoint(fullDecimalString)
             integerPart == pieces[1]
             decimalPart == IF Len(pieces) >= 2 THEN pieces[2] ELSE <<>>
             truncatedDecimalPart == substring(decimalPart, 0, prec)
             paddedDecimalPart    == padEnd(truncatedDecimalPart, prec, "0")
         IN  IF prec = 0 THEN integerPart
             ELSE integerPart \o <<".">> \o paddedDecimalPart

-----------------------------------------------------------------------------
(* src/App.tsx: numbers read from and written to the text fields           *)

\* the quotient and the remainder of a non-negative integer by a small d
DivSmall(a, d) == Norm(a.hi \div d, ((a.hi % d) * Base + a.lo) \div d)

ModSmall(a, d) == ((a.hi % d) * Base + a.lo) % d

\* the integer with the decimal digits ds[1..n]
RECURSIVE DecimalUpTo(_, _)
DecimalUpTo(ds, n) ==
    IF n = 0 THEN Zero
    ELSE LET a == DecimalUpTo(ds, n - 1)
         IN  Norm(a.hi * 10, a.lo * 10 + DigitsValue(<<ds[n]>>))

\* a * 10^k
RECURSIVE TimesPow10(_, _)
TimesPow10(a, k) ==
    IF k = 0 THEN a
    ELSE LET b == TimesPow10(a, k - 1) IN Norm(b.hi * 10, b.lo * 10)

\* a / 5^k when the division is exact
RECURSIVE DivPow5(_, _)
DivPow5(a, k) == IF k = 0 THEN a ELSE DivSmall(DivPow5(a, k - 1), 5)

\* 5^k divides a
RECURSIVE DivisibleByPow5(_, _)
DivisibleByPow5(a, k) ==
    k = 0 \/ (DivisibleByPow5(a, k - 1) /\ ModSmall(DivPow5(a, k - 1), 5) = 0)

\* the longest prefix of s made of decimal digits
DigitPrefix(s) ==
    LET Stop == {i \in 1..Len(s) : ~IsDigit(s[i])}
    IN  SubSeq(s, 1, IF Stop = {} THEN Len(s) ELSE First(Stop) - 1)

\* s begins with "Infinity"
StartsWithInfinity(s) ==
    /\ Len(s) >= 8
    /\ SubSeq(s, 1, 8) = <<"I", "n", "f", "i", "n", "i", "t", "y">>

\* the number +-N * 10^scale for N > 0, where it is an integer below
\* 2^IntBits or a binary fraction (5^-scale divides N): the texts typed into
\* the decimal field are chosen among these
DecimalValue(neg, N, scale) ==
    CASE scale >= 0 ->
            LET M == TimesPow10(N, scale) IN IF neg THEN IntNeg(M) ELSE M
      [] scale < 0 /\ DivisibleByPow5(N, -scale) ->
            MakeFinite(neg, IntBitsOf(DivPow5(N, -scale)), scale)

\* the exponent part at the start of s, 0 when there is none
ExponentPart(s) ==
    LET hasE      == s # <<>> /\ s[1] \in {"e", "E"}
        expBody   == IF hasE THEN Tail(s) ELSE <<>>
        expSigned == expBody # <<>> /\ expBody[1] \in {"+", "-"}
        expDigits == DigitPrefix(IF expSigned THEN Tail(expBody) ELSE expBody)
    IN  IF expDigits = <<>> THEN 0
        ELSE IF expBody[1] = "-" THEN -DigitsValue(expDigits)
        ELSE DigitsValue(expDigits)

\* the value of the literal with the given sign, integer digits, fraction
\* digits and exponent
LiteralValue(neg, intPart, fracPart, exp) ==
    Only({IF N = Zero THEN (IF neg THEN NegZero ELSE Zero)
          ELSE DecimalValue(neg, N, exp - Len(fracPart)) :
          N \in {DecimalUpTo(intPart \o fracPart, Len(intPart) + Len(fracPart))}})

\* the digits after the point at the start of afterInt, none without a point
FractionDigits(afterInt) ==
    IF afterInt # <<>> /\ afterInt[1] = "."
    THEN DigitPrefix(Tail(afterInt)) ELSE <<>>

\* the literal after its sign: digits, a point and digits, an exponent
UnsignedLiteral(neg, u) ==
    Only({
        LET afterInt == SubSeq(u, Len(intPart) + 1, Len(u))
            hasPoint == afterInt # <<>> /\ afterInt[1] = "."
        IN  Only({
                LET afterFrac == IF hasPoint
                                 THEN SubSeq(afterInt, Len(fracPart) + 2, Len(afterInt))
                                 ELSE afterInt
                IN  IF intPart = <<>> /\ fracPart = <<>>
                    THEN IF StartsWithInfinity(u) THEN Infinity(neg) ELSE NaN
                    ELSE LiteralValue(neg, intPart, fracPart, ExponentPart(afterFrac)) :
                fracPart \in {FractionDigits(afterInt)}}) :
        intPart \in {DigitPrefix(u)}})

\* parseFloat(value): the longest prefix that is a decimal literal, after
\* leading white space
parseFloat(value) ==
    Only({
        LET signed == t # <<>> /\ t[1] \in {"+", "-"}
            neg    == t # <<>> /\ t[1] = "-"
        IN  Only({UnsignedLiteral(neg, u) : u \in {IF signed THEN Tail(t) ELSE t}}) :
        t \in {LET Start == {i \in 1..Len(value) : value[i] \notin WhiteSpace}
               IN  IF Start = {} THEN <<>> ELSE SubSeq(value, First(Start), Len(value))}})

\* the four decimal digits of a natural number below 10^4
FourDigits(c) ==
    <<DecimalDigits[(c \div 1000) + 1], DecimalDigits[((c \div 100) % 10) + 1],
      DecimalDigits[((c \div 10) % 10) + 1], DecimalDigits[(c % 10) + 1]>>

\* the decimal digits of a non-negative integer, the empty string for 0:
\* the integer is rewritten from base 2^16 to base 10^4
IntDecimal(a) ==
    LET t0 == (a.hi % 10000) * Base + a.lo
        t1 == (a.hi \div 10000) * Base + (t0 \div 10000)
        t2 == t1 \div 10000
        ds == FourDigits(t2 \div 10000) \o FourDigits(t2 % 10000)
                \o FourDigits(t1 % 10000) \o FourDigits(t0 % 10000)
        NonZero == {i \in 1..Len(ds) : ds[i] # "0"}
    IN  IF NonZero = {} THEN <<>> ELSE SubSeq(ds, First(NonZero), Len(ds))

\* s without its trailing '0' characters
StripTrailingZeros(s) ==
    LET NonZero == {i \in 1..Len(s) : s[i] # "0"}
    IN  IF NonZero = {} THEN <<>> ELSE SubSeq(s, 1, Last(NonZero))

\* the shortest decimal digits that identify a number, for the numbers that
\* are not integers below 2^IntBits and that the explored events display:
\* pairs of a number and its printed form
ShortestDigits ==
    {<<Fin(FALSE, <<1>>, -1074),
       Dec(FALSE, <<"5">>, -323)>>,
     <<Fin(FALSE, <<1>>, -1073),
       Dec(FALSE, <<"1">>, -322)>>,
     <<Fin(FALSE, <<1, 0, 1>>, -1073),
       Dec(FALSE, <<"5">>, -322)>>,
     <<Fin(FALSE, <<1>>, -1070),
       Dec(FALSE, <<"8">>, -322)>>,
     <<Fin(FALSE, <<1, 0, 0, 1>>, -1073),
       Dec(FALSE, <<"9">>, -322)>>,
     <<Fin(FALSE, <<1, 1, 1, 1, 1, 1, 1, 1>>, -1074),
       Dec(FALSE, <<"1", "2", "6">>, -320)>>,
     <<Fin(FALSE, <<1, 1, 1, 1, 1, 1, 1, 1, 1>>, -1074),
       Dec(FALSE, <<"2", "5", "2", "5">>, -320)>>,
     <<Fin(FALSE, <<1, 0, 0, 0, 0, 0, 0, 0, 1>>, -1070),
       Dec(FALSE, <<"2", "0", "3", "1", "6">>, -319)>>,
     <<Fin(FALSE, <<1, 1, 1, 1, 1, 1, 1>>, -1051),
       Dec(FALSE, <<"5", "2", "6", "3", "5", "4", "4", "2", "4", "7">>, -314)>>,
     <<Fin(FALSE, <<1, 0, 0, 0, 1, 0, 0, 0, 1, 0, 0, 0, 1, 0, 0, 0, 1, 0, 0, 0, 1, 0, 0, 0, 1, 0, 0, 0, 1, 0, 0, 0, 1>>, -1074),
       Dec(FALSE, <<"2", "2", "6", "3", "4", "6", "2", "1", "7", "7">>, -313)>>,
     <<Fin(FALSE, <<1>>, -149),
       Dec(FALSE, <<"1", "4", "0", "1", "2", "9", "8", "4", "6", "4", "3", "2", "4", "8", "1", "7">>, -44)>>,
     <<Fin(FALSE, <<1>>, -148),
       Dec(FALSE, <<"2", "8", "0", "2", "5", "9", "6", "9", "2", "8", "6", "4", "9", "6", "3", "4">>, -44)>>,
     <<Fin(FALSE, <<1, 0, 1>>, -148),
       Dec(FALSE, <<"1", "4", "0", "1", "2", "9", "8", "4", "6", "4", "3", "2", "4", "8", "1", "7">>, -43)>>,
     <<Fin(FALSE, <<1>>, -145),
       Dec(FALSE, <<"2", "2", "4", "2", "0", "7", "7", "5", "4", "2", "9", "1", "9", "7", "0", "7", "3">>, -43)>>,
     <<Fin(FALSE, <<1, 0, 0, 1>>, -148),
       Dec(FALSE, <<"2", "5", "2", "2", "3", "3", "7", "2", "3", "5", "7", "8", "4", "6", "7", "0", "7">>, -43)>>,
     <<Fin(FALSE, <<1, 1, 1, 1, 1, 1, 1, 1>>, -149),
       Dec(FALSE, <<"3", "5", "7", "3", "3", "1", "1", "0", "8", "4", "0", "2", "8", "2", "8", "3", "5">>, -42)>>,
     <<Fin(FALSE, <<1, 1, 1, 1, 1, 1, 1, 1, 1>>, -149),
       Dec(FALSE, <<"7", "1", "6", "0", "6", "3", "5", "1", "5", "2", "6", "9", "9", "8", "1", "5">>, -42)>>,
     <<Fin(FALSE, <<1, 0, 0, 0, 0, 0, 0, 0, 1>>, -145),
       Dec(FALSE, <<"5", "7", "6", "2", "1", "3", "9", "2", "8", "5", "3", "0", "3", "6", "4", "8">>, -41)>>,
     <<Fin(FALSE, <<1, 1>>, -1),
       Dec(FALSE, <<"1", "5">>, 1)>>}

\* the form of a number that Number::toString prints
ShortestDecimal(x) ==
    CASE x.k \in {"nan", "inf", "negzero"} -> x
      [] x.k = "int" ->
            IF x = Zero THEN x
            ELSE LET ds == IntDecimal(IntAbs(x))
                 IN  Dec(IntLess(x, Zero), StripTrailingZeros(ds), Len(ds))
      [] x.k = "fin" -> (CHOOSE row \in ShortestDigits : row[1] = x)[2]

\* String(result)
String(x) == Only({NumberToString(d) : d \in {ShortestDecimal(x)}})

\* formatHexString: groups of two characters counted from the first
formatHexString(hexDigits) ==
    IF hexDigits = <<>> THEN <<>>
    ELSE join([i \in 1..((Len(hexDigits) + 1) \div 2) |->
                  substring(hexDigits, 2 * (i - 1), 2 * i)], <<" ">>)

\* /^[01]*$/.test(s)
TestBinaryStar(s) == \A i \in 1..Len(s) : s[i] \in BinaryDigits

\* String.prototype.toLowerCase on the characters used here
toLowerCase(s) ==
    [i \in 1..Len(s) |->
        CASE s[i] = "A" -> "a" [] s[i] = "B" -> "b" [] s[i] = "C" -> "c"
          [] s[i] = "D" -> "d" [] s[i] = "E" -> "e" [] s[i] = "F" -> "f"
          [] s[i] = "G" -> "g" [] OTHER -> s[i]]

\* String.prototype.endsWith
endsWith(s, suffix) ==
    Len(s) >= Len(suffix) /\ SubSeq(s, Len(s) - Len(suffix) + 1, Len(s)) = suffix

\* the test of handleDecimalChange for a text that is not yet a number
IsIncomplete(value) ==
    LET lowerCaseValue == toLowerCase(value)
    IN  \/ value = <<>>
        \/ value = <<"-">>
        \/ endsWith(value, <<".">>)
        \/ endsWith(lowerCaseValue, <<"e">>)
        \/ endsWith(lowerCaseValue, <<"e", "-">>)
        \/ endsWith(lowerCaseValue, <<"e", "+">>)

-----------------------------------------------------------------------------
(* src/unnamed/part_000: formatDecimalForDisplay with the exponential       *)
(* fallback                                                                *)
(*                                                                         *)
(* toFixed and toExponential round the exact value of the number, so here  *)
(* a record Dec(neg, digits, n) gives all the digits of the number.        *)

\* the value of a decimal digit
DigitOf(c) == (CHOOSE i \in 1..10 : DecimalDigits[i] = c) - 1

\* the decimal numeral of the successor of the number with the numeral s
NextNumeral(s) ==
    LET notNine == {i \in 1..Len(s) : s[i] # "9"}
    IN  IF notNine = {} THEN <<"1">> \o Repeat("0", Len(s))
        ELSE SubSeq(s, 1, Last(notNine) - 1)
                 \o <<DecimalDigits[DigitOf(s[Last(notNine)]) + 2]>>
                 \o Repeat("0", Len(s) - Last(notNine))

\* the numeral of the integer nearest to 0.digits * 10^q, the larger one when
\* two integers are equally near
RoundedNumeral(digits, q) ==
    LET k    == Len(digits)
        kept == IF q <= 0 THEN <<>>
                ELSE padEnd(SubSeq(digits, 1, IF q < k THEN q ELSE k), q, "0")
        up   == q >= 0 /\ q < k /\ DigitOf(digits[q + 1]) >= 5
    IN  IF kept = <<>> THEN (IF up THEN <<"1">> ELSE <<"0">>)
        ELSE IF up THEN NextNumeral(kept)
        ELSE kept

\* num.toFixed(fractionDigits)
toFixed(x, fractionDigits) ==
    IF fractionDigits < 0 \/ fractionDigits > 100 THEN Thrown("RangeError")
    ELSE IF ~isFinite(x) THEN Ok(NumberToString(x))
    ELSE IF x.k = "negzero" \/ x = Zero THEN Ok(ZeroToFixed(fractionDigits))
    ELSE IF x.n > 21 THEN Ok(NumberToString(x))
    ELSE LET m == padStart(RoundedNumeral(x.digits, x.n + fractionDigits),
                           fractionDigits + 1, "0")
         IN  Ok((IF x.neg THEN <<"-">> ELSE <<>>)
                \o (IF fractionDigits = 0 THEN m
                    ELSE SubSeq(m, 1, Len(m) - fractionDigits) \o <<".">>
                             \o SubSeq(m, Len(m) - fractionDigits + 1, Len(m))))

\* num.toExponential(fractionDigits)
toExponential(x, fractionDigits) ==
    IF ~isFinite(x) THEN Ok(NumberToString(x))
    ELSE IF fractionDigits < 0 \/ fractionDigits > 100 THEN Thrown("RangeError")
    ELSE IF x.k = "negzero" \/ x = Zero
    THEN Ok(ZeroToFixed(fractionDigits) \o <<"e", "+", "0">>)
    ELSE LET rounded == RoundedNumeral(x.digits, fractionDigits + 1)
             e       == IF Len(rounded) > fractionDigits + 1 THEN x.n ELSE x.n - 1
         IN  Ok((IF x.neg THEN <<"-">> ELSE <<>>)
                \o <<rounded[1]>>
                \o (IF fractionDigits = 0 THEN <<>>
                    ELSE <<".">> \o SubSeq(rounded, 2, fractionDigits + 1))
                \o <<"e", IF e < 0 THEN "-" ELSE "+">>
                \o NatString(IF e < 0 THEN -e ELSE e))

\* parseFloat(fixed) === 0: the literal at the start of the string has a
\* digit and all its digits are zeros
parseFloatIsZero(value) ==
    LET u        == IF value # <<>> /\ value[1] \in {"+", "-"} THEN Tail(value) ELSE value
        intPart  == DigitPrefix(u)
        fracPart == FractionDigits(SubSeq(u, Len(intPart) + 1, Len(u)))
    IN  /\ intPart \o fracPart # <<>>
        /\ \A i \in 1..Len(intPart) : intPart[i] = "0"
        /\ \A i \in 1..Len(fracPart) : fracPart[i] = "0"

\* the formatter without the fallback
formatDecimalForDisplayFixedOnly(x, prec) ==
    IF ~isFinite(x) THEN Ok(NumberToString(x))
    ELSE toFixed(x, prec)

\* formatDecimalForDisplay of the variant: the string returned, or the
\* exception thrown by toFixed
formatDecimalForDisplayFallback(x, prec) ==
    IF ~isFinite(x) THEN Ok(NumberToString(x))
    ELSE Only({IF ~fixed.ok THEN fixed
               ELSE IF ~(x.k = "negzero" \/ x = Zero) /\ parseFloatIsZero(fixed.value)
               THEN toExponential(x, prec)
               ELSE fixed :
               fixed \in {toFixed(x, prec)}})

\* the decimal digits (0..9) of a natural number, none for 0
RECURSIVE NatDigits(_)
NatDigits(i) == IF i = 0 THEN <<>> ELSE NatDigits(i \div 10) \o <<i % 10>>

\* the number written by the k digits of ds that end at position i; the
\* positions outside ds hold zeros
RECURSIVE WindowValue(_, _, _)
WindowValue(ds, i, k) ==
    IF k = 0 THEN 0
    ELSE (IF 1 <= i /\ i <= Len(ds) THEN ds[i] ELSE 0) + 10 * WindowValue(ds, i - 1, k - 1)

\* the digits of the number with the digits ds divided by 2^k, 1 <= k <= 9:
\* k more digits after the point; the remainder that long division carries
\* into a position is given by the k digits before it, 10^k being a
\* multiple of 2^k
DivPow2(ds, k) ==
    [i \in 1..(Len(ds) + k) |->
        (10 * (WindowValue(ds, i - 1, k) % 2^k)
            + (IF i <= Len(ds) THEN ds[i] ELSE 0)) \div 2^k]

\* the digits of the number with the digits ds divided by 2^e
RECURSIVE DivPow2Times(_, _)
DivPow2Times(ds, e) ==
    IF e = 0 THEN ds
    ELSE IF e <= 9 THEN DivPow2(ds, e)
    ELSE Only({DivPow2(h, 9) : h \in {DivPow2Times(ds, e - 9)}})

\* the number with the digits ds, the last s of them after the point
DecOf(neg, ds, s) ==
    LET NonZero == {i \in 1..Len(ds) : ds[i] # 0}
        first   == First(NonZero)
        last    == Last(NonZero)
    IN  Dec(neg, [i \in 1..(last - first + 1) |-> DecimalDigits[ds[first + i - 1] + 1]],
            Len(ds) - s - (first - 1))

\* a number with all its decimal digits, for the integers below 2^IntBits
\* and the fractions m * 2^e with m below 2^30
ExactDecimal(x) ==
    CASE x.k \in {"nan", "inf", "negzero"} -> x
      [] x.k = "int" -> ShortestDecimal(x)
      [] x.k = "fin" /\ x.e < 0 /\ Len(x.m) <= 30 ->
            Only({DecOf(x.neg, d, -x.e) :
                  d \in {DivPow2Times(NatDigits(BitsNat(x.m)), -x.e)}})

-----------------------------------------------------------------------------
(* Inputs of the explored calls                                            *)

\* integer values at and around the limits of the layouts and powers of two
Anchors ==
    {Zero, Num(-128), Num(127), Num(255), Num(-32768), Num(32767), Num(65535),
     Norm(-32768, 0), Norm(32767, 65535), Norm(65535, 65535),
     Num(100), Num(-100), Norm(23130, 23130), Norm(-23131, 42405)}

\* numbers that are not integers of the 32-bit range: NaN, the infinities,
\* -0, fractions, values that binary32 rounds, subnormal and huge values
Specials ==
    {NaN, Infinity(FALSE), Infinity(TRUE), NegZero,
     Fin(FALSE, <<1, 1>>, -1), Fin(TRUE, <<1>>, -1), Fin(TRUE, <<1, 0, 1>>, -1),
     Fin(FALSE, <<1, 1, 0, 0, 1>>, -27), Fin(FALSE, <<1>>, -149),
     Fin(FALSE, <<1>>, -150), Fin(TRUE, <<1, 1>>, -150), Fin(FALSE, <<1>>, -1074),
     Fin(FALSE, <<1>>, 100), Fin(TRUE, <<1, 0, 1>>, 60), Fin(FALSE, <<1>>, 128),
     Fin(FALSE, Repeat(1, 24), 104), Fin(TRUE, Repeat(1, 25), 103),
     Fin(FALSE, Repeat(1, 53), 971), Fin(FALSE, Repeat(1, 53), -53),
     Norm(256, 1), Norm(256, 3)}

DecimalInputs ==
    {IntAdd(a, Num(d)) : a \in Anchors, d \in (-Radius)..Radius} \cup Specials

BitStrings(n) == [1..n -> BinaryDigits]

ShortStrings == UNION {BitStrings(n) : n \in 0..MaxShort}

Heads == UNION {BitStrings(n) : n \in 0..HeadLen}

\* strings of length w - 1, w and w + 1: a head, a run of one digit, a tail
LongStrings(w) ==
    {h \o Repeat(c, n - Len(h) - Len(t)) \o t :
        h \in Heads, t \in Heads, c \in BinaryDigits, n \in {w - 1, w, w + 1}}

BadChars == {"2", "a", " ", "\n", "-"}

\* strings with one character that is not a binary digit, at the first, the
\* middle or the last position
InvalidStrings(w) ==
    UNION {{[s EXCEPT ![i] = c] : i \in {1, 2, 3, w \div 2, w - 1, w, w + 1} \cap DOMAIN s,
                                  c \in BadChars} :
           s \in {Repeat(d, n) : d \in BinaryDigits, n \in {1, 2, 3, w - 1, w, w + 1}}}

BinaryInputs(t) ==
    LET w == DATA_TYPE_DETAILS[t].bits
    IN  ShortStrings \cup LongStrings(w) \cup InvalidStrings(w)

HexInputs ==
    ShortStrings \cup UNION {LongStrings(w) : w \in {8, 16}} \cup InvalidStrings(8)

\* bit strings of every short length, of the lengths around one and two
\* bytes, around the end of the exponent field, and around the full width
FormatInputs(t) ==
    ShortStrings \cup UNION {LongStrings(w) : w \in {9, 12, 16, DATA_TYPE_DETAILS[t].bits}}

\* the digits of printed numbers: one digit, several digits, and the
\* seventeen digits of 0.1 + 0.2 and of the largest double
DigitStrings ==
    {<<"1">>, <<"5">>, <<"1", "5">>, <<"1", "2", "3">>, <<"9", "9", "9", "9">>,
     <<"3">> \o Repeat("0", 15) \o <<"4">>}

\* positions of the decimal point: inside and at both ends of the range that
\* is printed without an exponent (-6 < n <= 21), and far outside it
PointPositions == {-199, -20, -7, -6, -5, -1, 0, 1, 2, 3, 4, 17, 20, 21, 22, 23, 300}

\* the numbers printed: zero, -0, NaN, the infinities, the smallest and the
\* largest double, and +-0.digits * 10^n
ShownInputs ==
    {Zero, NegZero, NaN, Infinity(FALSE), Infinity(TRUE),
     Dec(FALSE, <<"5">>, -323),
     Dec(TRUE, <<"1", "7", "9", "7", "6", "9", "3", "1", "3", "4", "8", "6", "2",
                 "3", "1", "5", "7">>, 309)}
        \cup {Dec(neg, ds, n) : neg \in BOOLEAN, ds \in DigitStrings, n \in PointPositions}

\* the positions of the precision slider of the Float64 layout
Precisions == 0..20

\* finite numbers with all their digits: 0.5, 0.25, 0.375, 0.96875, 1.5, 2.5,
\* 9.5, 99.5, 123, 2^-4, 2^-10, 2^-20, 2^-70, 30000000000000004, 10^20, 10^21
\* and 1.5 * 10^21
ExactDigits ==
    {<<<<"5">>, 0>>, <<<<"2", "5">>, 0>>, <<<<"3", "7", "5">>, 0>>,
     <<<<"9", "6", "8", "7", "5">>, 0>>,
     <<<<"1", "5">>, 1>>, <<<<"2", "5">>, 1>>, <<<<"9", "5">>, 1>>,
     <<<<"9", "9", "5">>, 2>>, <<<<"1", "2", "3">>, 3>>,
     <<<<"6", "2", "5">>, -1>>,
     <<<<"9", "7", "6", "5", "6", "2", "5">>, -3>>,
     <<<<"9", "5", "3", "6", "7", "4", "3", "1", "6", "4", "0", "6", "2", "5">>, -6>>,
     <<<<"8", "4", "7", "0", "3", "2", "9", "4", "7", "2", "5", "4", "3", "0",
       "0", "3", "3", "9", "0", "6", "8", "3", "2", "2", "5", "0", "0", "6",
       "7", "9", "6", "4", "1", "9", "6", "2", "0", "5", "1", "3", "9", "1",
       "6", "0", "1", "5", "6", "2", "5">>,
       -21>>,
     <<<<"3">> \o Repeat("0", 15) \o <<"4">>, 17>>,
     <<<<"1">>, 21>>, <<<<"1">>, 22>>, <<<<"1", "5">>, 22>>}

\* the numbers formatted by the variant: zero, -0, NaN, the infinities and
\* the finite numbers above with either sign
ExactInputs ==
    {Zero, NegZero, NaN, Infinity(FALSE), Infinity(TRUE)}
        \cup {Dec(neg, d[1], d[2]) : neg \in BOOLEAN, d \in ExactDigits}

\* precisions passed to the variant: the positions of the slider, the largest
\* number of digits toFixed accepts, and one more
FallbackPrecisions == Precisions \cup {100, 101}

\* texts typed into the binary input of the App with the merged effect: a
\* character that is no bit and, under the 64-bit layout, the pattern of 1.5;
\* under the other layouts one bit, bits with a space, and the patterns of
\* 1.5 and of 2^-70 in 32 bits
MergedBinaryTexts(type) ==
    {<<>>, <<"2">>} \cup
        (IF type = "Float64"
         THEN {<<"0", "0">> \o Repeat("1", 11) \o Repeat("0", 51)}
         ELSE {<<"1">>, <<"1", " ", "0">>,
               <<"0", "0">> \o Repeat("1", 8) \o Repeat("0", 22),
               <<"0", "0", "0", "1", "1", "1", "0", "0", "1">> \o Repeat("0", 23)})

\* texts typed into its hexadecimal input: a character that is no digit and
\* the pattern of -0.25 in 64 bits, or one byte and the pattern in 32 bits
MergedHexTexts(type) ==
    {<<>>, <<"G">>} \cup
        (IF type = "Float64"
         THEN {<<"B", "F", "D">> \o Repeat("0", 13)}
         ELSE {<<"F", "F">>, <<"B", "E", "8">> \o Repeat("0", 5)})

\* characters that are neither hexadecimal digits nor white space
BadHexChars == {"g", "G", "x", "-"}

HexSample == {"0", "9", "a", "F", " ", "g"}

\* the empty string, every one-character string, and the strings over
\* HexSample of length 2..MaxHexLen
HexStrings ==
    {<<>>} \cup {<<c>> : c \in HexDigitChars \cup WhiteSpace \cup BadHexChars}
           \cup UNION {[1..n -> HexSample] : n \in 2..MaxHexLen}

\* texts typed into the decimal field: empty, incomplete, integers,
\* a fraction, a value outside the 8-bit ranges, and a text that is no number
DecimalTexts ==
    {<<>>,
     <<"-">>,
     <<"1">>,
     <<"-", "1">>,
     <<"1", ".">>,
     <<"1", ".", "5">>,
     <<"3", "0", "0">>,
     <<"a", "b", "c">>,
     <<"1", "e">>}

\* texts typed into the binary / hexadecimal field: empty, bit strings,
\* white space, hexadecimal digits, a character of neither alphabet, the
\* single-precision pattern of 1, and nine digits
RawTexts ==
    {<<>>,
     <<"1">>,
     <<"1", "0", "1", "0">>,
     <<"1", " ", "0">>,
     <<" ">>,
     <<"1", "2">>,
     <<"G">>,
     <<"F", "F">>,
     <<"3", "F", "8", "0", "0", "0", "0", "0">>,
     <<"1", "1", "1", "1", "1", "1", "1", "1", "1">>}

\* the positions the precision slider is moved to
SliderPositions == {0, 10, 11, 20}

-----------------------------------------------------------------------------
(* The calls into the converter                                            *)

\* the value null of error and of lastChanged
null == "null"

\* the last step of the App did not call formatDecimalForDisplay
NoFormat == [none |-> TRUE]

\* no call has returned yet
NoResult == [ok |-> FALSE, none |-> TRUE]

Init ==
    /\ pc = "idle"
    /\ dataType = "Float32"
    /\ decimal = Zero
    /\ binary = <<>>
    /\ hexString = <<>>
    /\ shown = Zero
    /\ precision = 7
    /\ out = NoResult
    /\ back = NoResult
    /\ decimalValue = <<>>
    /\ binaryValue = <<>>
    /\ error = null
    /\ lastChanged = null
    /\ binaryInputMode = "binary"
    /\ rendered = [dataType |-> "Float32", precision |-> 7,
                   binaryValue |-> <<>>, lastChanged |-> null]
    /\ lastFormat = NoFormat
    /\ prevPrecisionRef = 7

\* convertDecimalToBinary(d, t)
Encode ==
    \E t \in DataType, d \in DecimalInputs :
        /\ pc = "idle"
        /\ pc' = "encoded"
        /\ dataType' = t
        /\ decimal' = d
        /\ out' = convertDecimalToBinary(d, t)
        /\ UNCHANGED <<binary, hexString, shown, precision, back, appVars>>

\* convertBinaryToDecimal applied to the bit string that Encode returned
DecodeEncoded ==
    /\ pc = "encoded"
    /\ out.ok
    /\ pc' = "roundTrip"
    /\ back' = convertBinaryToDecimal(out.value, dataType)
    /\ UNCHANGED <<dataType, decimal, binary, hexString, shown, precision, out, appVars>>

\* convertBinaryToDecimal(b, t)
Decode ==
    \E t \in DataType :
        \E b \in BinaryInputs(t) :
            /\ pc = "idle"
            /\ pc' = "decoded"
            /\ dataType' = t
            /\ binary' = b
            /\ out' = convertBinaryToDecimal(b, t)
            /\ UNCHANGED <<decimal, hexString, shown, precision, back, appVars>>

\* convertBinaryToHex(b)
BinaryToHex ==
    \E b \in HexInputs :
        /\ pc = "idle"
        /\ pc' = "hexed"
        /\ binary' = b
        /\ out' = Ok(convertBinaryToHex(b))
        /\ UNCHANGED <<dataType, decimal, hexString, shown, precision, back, appVars>>

\* convertHexToBinary applied to the digits that BinaryToHex returned
HexToBinary ==
    /\ pc = "hexed"
    /\ pc' = "hexRoundTrip"
    /\ back' = convertHexToBinary(out.value)
    /\ UNCHANGED <<dataType, decimal, binary, hexString, shown, precision, out, appVars>>

\* convertHexToBinary(h)
DecodeHex ==
    \E h \in HexStrings :
        /\ pc = "idle"
        /\ pc' = "unhexed"
        /\ hexString' = h
        /\ out' = convertHexToBinary(h)
        /\ UNCHANGED <<dataType, decimal, binary, shown, precision, back, appVars>>

\* formatBinaryString(b, t)
FormatBinary ==
    \E t \in DataType :
        \E b \in FormatInputs(t) :
            /\ pc = "idle"
            /\ pc' = "formatted"
            /\ dataType' = t
            /\ binary' = b
            /\ out' = Ok(formatBinaryString(b, t))
            /\ UNCHANGED <<decimal, hexString, shown, precision, back, appVars>>

\* formatDecimalForDisplay(x, p)
FormatDecimal ==
    \E x \in ShownInputs, p \in Precisions :
        /\ pc = "idle"
        /\ pc' = "displayed"
        /\ shown' = x
        /\ precision' = p
        /\ out' = Ok(formatDecimalForDisplay(x, p))
        /\ UNCHANGED <<dataType, decimal, binary, hexString, back, appVars>>

\* formatDecimalForDisplay(x, p) of the variant with the fallback
FormatWithFallback ==
    \E x \in ExactInputs, p \in FallbackPrecisions :
        /\ pc = "idle"
        /\ pc' = "fallback"
        /\ shown' = x
        /\ precision' = p
        /\ out' = formatDecimalForDisplayFallback(x, p)
        /\ UNCHANGED <<dataType, decimal, binary, hexString, back, appVars>>

Next ==
    \/ Encode \/ DecodeEncoded \/ Decode \/ BinaryToHex \/ HexToBinary
    \/ DecodeHex \/ FormatBinary \/ FormatDecimal \/ FormatWithFallback

Spec == Init /\ [][Next]_vars

-----------------------------------------------------------------------------
(* src/App.tsx: the App component                                          *)
(*                                                                         *)
(* A handler runs to its end and the component renders; the effects whose  *)
(* dependencies changed then run together, with the values of that render, *)
(* before the next event is handled.                                       *)

isFloatType == DATA_TYPE_DETAILS[dataType].isFloat

\* the error prop of the decimal input
decimalError == IF lastChanged = "decimal" THEN error ELSE null

\* the error prop without the test of lastChanged
binaryErrorUngated == error

\* the error prop of the binary / hexadecimal input
binaryError == IF lastChanged = "binary" THEN error ELSE null

\* the text shown in the binary / hexadecimal input
binaryHexDisplayValue ==
    IF binaryValue = <<>> THEN <<>>
    ELSE IF binaryInputMode = "hex" THEN formatHexString(convertBinaryToHex(binaryValue))
    ELSE formatBinaryString(binaryValue, dataType)

\* max of the PrecisionSlider
SliderMax(type) == IF type = "Float32" THEN 10 ELSE 20

\* the dependencies of the two effects
Deps ==
    [dataType |-> dataType, precision |-> precision,
     binaryValue |-> binaryValue, lastChanged |-> lastChanged]

\* no effect is waiting to run
EffectsSettled == rendered = Deps

\* the first effect without its body
PrecisionEffectNone(type, prec) == prec

\* the first effect: the precision after it has run
PrecisionEffect(type, prec) ==
    IF DATA_TYPE_DETAILS[type].isFloat
    THEN (IF type = "Float32" THEN 7 ELSE 15)
    ELSE prec

\* isFloatType ? formatDecimalForDisplay(result, precision) : String(result)
DecimalString(result, type, prec) ==
    IF DATA_TYPE_DETAILS[type].isFloat
    THEN Only({formatDecimalForDisplay(x, prec) : x \in {ShortestDecimal(result)}})
    ELSE String(result)

\* the record of a call formatDecimalForDisplay(.., prec) under the layout type
FormatCall(type, prec) == [type |-> type, precision |-> prec]

AppInit ==
    /\ dataType = "Float32"
    /\ decimalValue = <<>>
    /\ binaryValue = <<>>
    /\ error = null
    /\ lastChanged = null
    /\ binaryInputMode = "binary"
    /\ precision = 7
    /\ rendered = Deps
    /\ lastFormat = NoFormat
    /\ prevPrecisionRef = 7
    /\ pc = "idle"
    /\ decimal = Zero
    /\ binary = <<>>
    /\ hexString = <<>>
    /\ shown = Zero
    /\ out = NoResult
    /\ back = NoResult

\* binaryValue and error as handleDecimalChange sets them for a number
NumberChange(num, type) ==
    IF num.k # "nan"
    THEN Only({IF result.ok
               THEN [binaryValue |-> result.value, error |-> null]
               ELSE [binaryValue |-> <<>>, error |-> result.error] :
               result \in {convertDecimalToBinary(num, type)}})
    ELSE [binaryValue |-> <<>>, error |-> "Invalid decimal input"]

\* binaryValue and error as handleDecimalChange sets them
DecimalChange(value, type) ==
    IF IsIncomplete(value) THEN [binaryValue |-> <<>>, error |-> null]
    ELSE Only({NumberChange(num, type) : num \in {parseFloat(value)}})

\* the user changes the text of the decimal input to value
HandleDecimalChange ==
    \E value \in DecimalTexts :
        /\ EffectsSettled
        /\ value # decimalValue
        /\ decimalValue' = value
        /\ lastChanged' = "decimal"
        /\ \E change \in {DecimalChange(value, dataType)} :
                /\ binaryValue' = change.binaryValue
                /\ error' = change.error
        /\ lastFormat' = NoFormat
        /\ UNCHANGED <<dataType, precision, binaryInputMode, rendered, callVars,
                       prevPrecisionRef>>

\* the bit string read from the binary / hexadecimal input, or the error
ReadBinaryHex(rawValue, mode) ==
    IF mode = "hex"
    THEN convertHexToBinary(RemoveWhiteSpace(rawValue))
    ELSE LET binaryString == RemoveWhiteSpace(rawValue)
         IN  IF ~TestBinaryStar(binaryString) THEN Err("Invalid binary input")
             ELSE Ok(binaryString)

\* the user changes the text of the binary / hexadecimal input to rawValue
HandleBinaryHexChange ==
    \E rawValue \in RawTexts :
        /\ EffectsSettled
        /\ rawValue # binaryHexDisplayValue
        /\ lastChanged' = "binary"
        /\ IF rawValue = <<>>
           THEN /\ binaryValue' = <<>>
                /\ decimalValue' = <<>>
                /\ error' = null
                /\ lastFormat' = NoFormat
           ELSE \E read \in {ReadBinaryHex(rawValue, binaryInputMode)} :
                    IF ~read.ok
                    THEN /\ error' = read.error
                         /\ binaryValue' = <<>>
                         /\ decimalValue' = <<>>
                         /\ lastFormat' = NoFormat
                    ELSE \E result \in {convertBinaryToDecimal(read.value, dataType)} :
                             /\ binaryValue' = read.value
                             /\ IF result.ok
                                THEN /\ decimalValue' =
                                            DecimalString(result.value, dataType, precision)
                                     /\ error' = null
                                     /\ lastFormat' = IF isFloatType
                                                      THEN FormatCall(dataType, precision)
                                                      ELSE NoFormat
                                ELSE /\ decimalValue' = <<>>
                                     /\ error' = result.error
                                     /\ lastFormat' = NoFormat
        /\ UNCHANGED <<dataType, precision, binaryInputMode, rendered, callVars,
                       prevPrecisionRef>>

\* the Clear button
ClearInputs ==
    /\ EffectsSettled
    /\ decimalValue' = <<>>
    /\ binaryValue' = <<>>
    /\ error' = null
    /\ lastChanged' = null
    /\ lastFormat' = NoFormat
    /\ UNCHANGED <<dataType, precision, binaryInputMode, rendered, callVars,
                       prevPrecisionRef>>

\* the user selects another layout
HandleDataTypeChange ==
    \E newType \in DataType \ {dataType} :
        /\ EffectsSettled
        /\ dataType' = newType
        /\ decimalValue' = <<>>
        /\ binaryValue' = <<>>
        /\ error' = null
        /\ lastChanged' = null
        /\ lastFormat' = NoFormat
        /\ UNCHANGED <<precision, binaryInputMode, rendered, callVars,
                       prevPrecisionRef>>

\* the Bin / Hex buttons
HandleModeChange ==
    \E mode \in {"binary", "hex"} :
        /\ EffectsSettled
        /\ mode # binaryInputMode
        /\ binaryInputMode' = mode
        /\ \E result \in {convertBinaryToDecimal(binaryValue, dataType)} :
               IF binaryValue # <<>> /\ result.ok
               THEN /\ decimalValue' = DecimalString(result.value, dataType, precision)
                    /\ lastFormat' = IF isFloatType THEN FormatCall(dataType, precision)
                                     ELSE NoFormat
               ELSE decimalValue' = decimalValue /\ lastFormat' = NoFormat
        /\ UNCHANGED <<dataType, precision, binaryValue, error, lastChanged, rendered,
                       callVars,
                       prevPrecisionRef>>

\* the user moves the precision slider, shown for the float layouts
SetPrecision ==
    \E p \in SliderPositions :
        /\ EffectsSettled
        /\ isFloatType
        /\ p <= SliderMax(dataType)
        /\ p # precision
        /\ precision' = p
        /\ lastFormat' = NoFormat
        /\ UNCHANGED <<dataType, decimalValue, binaryValue, error, lastChanged,
                       binaryInputMode, rendered, callVars,
                       prevPrecisionRef>>

\* the effects of one render: the first when dataType changed, the second
\* when any of its dependencies changed; both read the values of the render
RunEffects ==
    /\ ~EffectsSettled
    /\ rendered' = Deps
    /\ precision' = IF rendered.dataType # dataType
                    THEN PrecisionEffect(dataType, precision)
                    ELSE precision
    /\ \E result \in {convertBinaryToDecimal(binaryValue, dataType)} :
           IF lastChanged # "decimal" /\ binaryValue # <<>> /\ isFloatType /\ result.ok
           THEN /\ decimalValue' = DecimalString(result.value, dataType, precision)
                /\ lastFormat' = FormatCall(dataType, precision)
           ELSE decimalValue' = decimalValue /\ lastFormat' = NoFormat
    /\ UNCHANGED <<dataType, binaryValue, error, lastChanged, binaryInputMode, callVars,
                       prevPrecisionRef>>

AppNext ==
    \/ HandleDecimalChange \/ HandleBinaryHexChange \/ ClearInputs
    \/ HandleDataTypeChange \/ HandleModeChange \/ SetPrecision \/ RunEffects

AppSpec == AppInit /\ [][AppNext]_vars

-----------------------------------------------------------------------------
(* src/unnamed/part_000: the App component with the merged effect          *)
(*                                                                         *)
(* The state, handleDecimalChange, clearInputs, handleDataTypeChange and   *)
(* the precision slider are those of src/App.tsx; the binary and the       *)
(* hexadecimal input are two fields, and one effect keeps the decimal      *)
(* field in line with the bits and with the precision.                     *)

\* isFloatType ? formatDecimalForDisplay(result, precision) : String(result)
\* with the formatter that has the fallback
MergedDecimalString(result, type, prec) ==
    IF DATA_TYPE_DETAILS[type].isFloat
    THEN Only({formatDecimalForDisplayFallback(x, prec).value : x \in {ExactDecimal(result)}})
    ELSE String(result)

\* the texts shown in the binary and in the hexadecimal input
binaryDisplayValue == formatBinaryString(binaryValue, dataType)

hexDisplayValue == formatHexString(convertBinaryToHex(binaryValue))

\* the state after a bit string was read from one of the two inputs
MergedBitsChange(read) ==
    IF ~read.ok
    THEN /\ binaryValue' = <<>>
         /\ decimalValue' = <<>>
         /\ error' = read.error
    ELSE \E result \in {convertBinaryToDecimal(read.value, dataType)} :
             /\ binaryValue' = read.value
             /\ IF result.ok
                THEN /\ decimalValue' = MergedDecimalString(result.value, dataType, precision)
                     /\ error' = null
                ELSE /\ decimalValue' = <<>>
                     /\ error' = result.error

\* the user changes the text of the binary input to rawValue
HandleBinaryChange ==
    \E rawValue \in MergedBinaryTexts(dataType) :
        /\ EffectsSettled
        /\ rawValue # binaryDisplayValue
        /\ lastChanged' = "binary"
        /\ IF rawValue = <<>>
           THEN binaryValue' = <<>> /\ decimalValue' = <<>> /\ error' = null
           ELSE MergedBitsChange(ReadBinaryHex(rawValue, "binary"))
        /\ UNCHANGED <<dataType, precision, binaryInputMode, rendered, lastFormat,
                       prevPrecisionRef, callVars>>

\* the user changes the text of the hexadecimal input to rawValue
HandleHexChange ==
    \E rawValue \in MergedHexTexts(dataType) :
        /\ EffectsSettled
        /\ rawValue # hexDisplayValue
        /\ lastChanged' = "hex"
        /\ IF rawValue = <<>>
           THEN binaryValue' = <<>> /\ decimalValue' = <<>> /\ error' = null
           ELSE MergedBitsChange(ReadBinaryHex(rawValue, "hex"))
        /\ UNCHANGED <<dataType, precision, binaryInputMode, rendered, lastFormat,
                       prevPrecisionRef, callVars>>

\* the test of the ref that never sees a change
precisionChangedNever(prev, prec) == FALSE

\* prevPrecisionRef.current !== precision
precisionChanged(prev, prec) == prev # prec

\* the effects of one render: the precision reset when dataType changed, and
\* the merged effect, one of whose dependencies changed
MergedRunEffects ==
    /\ ~EffectsSettled
    /\ rendered' = Deps
    /\ precision' = IF rendered.dataType # dataType
                    THEN PrecisionEffect(dataType, precision)
                    ELSE precision
    /\ prevPrecisionRef' = precision
    /\ IF lastChanged = "decimal" /\ ~precisionChanged(prevPrecisionRef, precision)
       THEN decimalValue' = decimalValue
       ELSE IF binaryValue # <<>>
       THEN \E result \in {convertBinaryToDecimal(binaryValue, dataType)} :
                IF result.ok
                THEN decimalValue' = MergedDecimalString(result.value, dataType, precision)
                ELSE decimalValue' = decimalValue
       ELSE IF lastChanged # null
       THEN decimalValue' = <<>>
       ELSE decimalValue' = decimalValue
    /\ UNCHANGED <<dataType, binaryValue, error, lastChanged, binaryInputMode, lastFormat,
                   callVars>>

MergedNext ==
    \/ HandleDecimalChange \/ HandleBinaryChange \/ HandleHexChange \/ ClearInputs
    \/ HandleDataTypeChange \/ SetPrecision \/ MergedRunEffects

MergedSpec == AppInit /\ [][MergedNext]_vars

-----------------------------------------------------------------------------
(* Reference notions used by the properties                                *)

IsBitString(s) == \A i \in 1..Len(s) : s[i] \in {"0", "1"}

Width(t) == DATA_TYPE_DETAILS[t].bits

\* 2^w as a number
TwoToThe(w) ==
    [k |-> "int", hi |-> IF w >= 16 THEN 2^(w - 16) ELSE 0,
                  lo |-> IF w >= 16 THEN 0 ELSE 2^w]

\* bit j (0 = least significant) of the integer v in two's complement
BitOf(v, j) == IF j < 16 THEN (v.lo \div 2^j) % 2 ELSE (v.hi \div 2^(j - 16)) % 2

\* s is the w-character big-endian numeral of v mod 2^w
IsNumeralOf(s, v, w) ==
    /\ Len(s) = w
    /\ \A i \in 1..w : s[i] = (IF BitOf(v, w - i) = 1 THEN "1" ELSE "0")

\* v is an integer with min <= v <= max of layout t
InLayoutRange(v, t) ==
    /\ v.k \in {"int", "negzero"}
    /\ ~IntLess(Limbs(v), DATA_TYPE_DETAILS[t].min)
    /\ ~IntLess(DATA_TYPE_DETAILS[t].max, Limbs(v))

\* v is a mathematical integer
IsMathInteger(v) == v.k \in {"int", "negzero"} \/ (v.k = "fin" /\ v.e >= 0)

UpperHexDigits ==
    <<"0", "1", "2", "3", "4", "5", "6", "7", "8", "9", "A", "B", "C", "D", "E", "F">>

\* the finite number v is a value of the binary32 / binary64 format: zero,
\* or +-m * 2^e with m odd of at most 24 / 53 bits, below 2^128 / 2^1024,
\* and a multiple of 2^-149 / 2^-1074
Representable(v, t) ==
    \/ v.k = "negzero"
    \/ v = Zero
    \/ /\ v.k \in {"int", "fin"}
       /\ LET d == Dyadic(v)
          IN  IF t = "Float32"
              THEN Len(d.m) <= 24 /\ d.e + Len(d.m) <= 128 /\ d.e >= -149
              ELSE Len(d.m) <= 53 /\ d.e + Len(d.m) <= 1024 /\ d.e >= -1074

IsDecimalDigit(c) == c \in {"0", "1", "2", "3", "4", "5", "6", "7", "8", "9"}

\* r is a success value or an { error } object
IsResult(r) ==
    \/ DOMAIN r = {"ok", "value"} /\ r.ok
    \/ DOMAIN r = {"ok", "error"} /\ ~r.ok

LowerHexDigits ==
    <<"0", "1", "2", "3", "4", "5", "6", "7", "8", "9", "a", "b", "c", "d", "e", "f">>

IsHexDigit(c) == \E v \in 1..16 : c \in {UpperHexDigits[v], LowerHexDigits[v]}

\* the value of the hexadecimal digit c
HexValue(c) == (CHOOSE v \in 1..16 : c \in {UpperHexDigits[v], LowerHexDigits[v]}) - 1

IsSpace(c) == c \in {" ", "\t", "\n"}

IsNotSpace(c) == ~IsSpace(c)

\* the bit of s that is j places from its right end, 0 beyond its left end
BitFromRight(s, j) == IF j < Len(s) /\ s[Len(s) - j] = "1" THEN 1 ELSE 0

\* the value of the nibble of s that is g nibbles from its right end
NibbleFromRight(s, g) ==
    8 * BitFromRight(s, 4 * g + 3) + 4 * BitFromRight(s, 4 * g + 2)
        + 2 * BitFromRight(s, 4 * g + 1) + BitFromRight(s, 4 * g)

-----------------------------------------------------------------------------
(* Properties                                                              *)

\* C1: for an integer layout L and an integer v with L.min <= v <= L.max,
\* encoding succeeds and decoding the encoded string returns the number v.
IntegerRoundTrip ==
    (dataType \in IntegerTypes /\ InLayoutRange(decimal, dataType)) =>
        /\ pc = "encoded" => out.ok
        /\ pc = "roundTrip" => back = Ok(Limbs(decimal))

IntegerRoundTripWitness ==
    /\ pc = "roundTrip"
    /\ dataType = "Int32"
    /\ decimal = Norm(-32768, 0)
    /\ back = Ok(decimal)

\* C2: whenever convertDecimalToBinary accepts a value for a layout, the
\* returned string has exactly L.bits characters, each '0' or '1'.
FixedWidth ==
    (pc = "encoded" /\ out.ok) =>
        /\ Len(out.value) = Width(dataType)
        /\ IsBitString(out.value)

FixedWidthWitness ==
    /\ pc = "encoded"
    /\ dataType = "Float64"
    /\ decimal = Fin(TRUE, <<1, 0, 1>>, -1)
    /\ out.ok
    /\ Len(out.value) = 64

\* C3: for an integer layout of width w and an integer v in range, the
\* encoder returns the w-character big-endian numeral of v mod 2^w.
TwosComplementEncoding ==
    (pc = "encoded" /\ dataType \in IntegerTypes /\ InLayoutRange(decimal, dataType)) =>
        /\ out.ok
        /\ IsNumeralOf(out.value, Limbs(decimal), Width(dataType))

TwosComplementEncodingWitness ==
    /\ pc = "encoded"
    /\ dataType = "Int8"
    /\ decimal = Num(-1)
    /\ out = Ok(Repeat("1", 8))

\* C4: for an integer layout the encoder returns the not-an-integer error
\* for a value that is not a mathematical integer, the out-of-range error
\* for an integer outside [L.min, L.max], and a bit string otherwise.
EncodeClassification ==
    (pc = "encoded" /\ dataType \in IntegerTypes) =>
        IF ~IsMathInteger(decimal)
        THEN out = Err("Only integers are allowed for this data type.")
        ELSE IF ~InLayoutRange(decimal, dataType)
        THEN out = Err("Value out of range for " \o dataType \o ".")
        ELSE out.ok

EncodeClassificationWitness ==
    /\ pc = "encoded"
    /\ dataType = "UInt32"
    /\ decimal = Norm(65536, 0)
    /\ out = Err("Value out of range for UInt32.")

\* C5: for an integer layout of width w and a bit string b of length w with
\* unsigned value u, the decoder returns u - 2^w if the layout is signed and
\* b starts with '1', and u otherwise; the result lies in [L.min, L.max].
DecodeReference ==
    (pc = "decoded" /\ dataType \in IntegerTypes /\ IsBitString(binary)
        /\ Len(binary) = Width(dataType)) =>
        /\ out.ok
        /\ out.value.k = "int"
        /\ LET w == Width(dataType)
               u == IF DATA_TYPE_DETAILS[dataType].signed /\ binary[1] = "1"
                    THEN IntAdd(out.value, TwoToThe(w))
                    ELSE out.value
           IN  /\ ~IntLess(u, Zero)
               /\ IntLess(u, TwoToThe(w))
               /\ IsNumeralOf(binary, u, w)
        /\ InLayoutRange(out.value, dataType)

DecodeReferenceWitness ==
    /\ pc = "decoded"
    /\ dataType = "Int16"
    /\ binary = Repeat("1", 16)
    /\ out = Ok(Num(-1))

\* C6: for a float layout and a non-empty bit string shorter than L.bits the
\* decoder returns an error and never a number.
FloatDecodeDoesNotPad ==
    (pc = "decoded" /\ dataType \in FloatTypes /\ IsBitString(binary)
        /\ 1 <= Len(binary) /\ Len(binary) < Width(dataType)) =>
        ~out.ok

\* C7: for an integer layout and a non-empty bit string b shorter than
\* L.bits, decoding succeeds, equals decoding b left-padded with '0' to
\* L.bits, and is the non-negative unsigned value of b.
IntegerAutoPad ==
    (pc = "decoded" /\ dataType \in IntegerTypes /\ IsBitString(binary)
        /\ 1 <= Len(binary) /\ Len(binary) < Width(dataType)) =>
        LET w == Width(dataType)
        IN  /\ out.ok
            /\ out = convertBinaryToDecimal(Repeat("0", w - Len(binary)) \o binary, dataType)
            /\ out.value.k = "int"
            /\ ~IntLess(out.value, Zero)
            /\ IsNumeralOf(Repeat("0", w - Len(binary)) \o binary, out.value, w)

IntegerAutoPadWitness ==
    /\ pc = "decoded"
    /\ dataType = "Int8"
    /\ binary = <<"1", "0", "1", "0">>
    /\ out = Ok(Num(10))

\* C8: for every layout and every bit string longer than L.bits the decoder
\* returns the length-exceeded error, also when the extra characters are '0'.
LengthExceeded ==
    (pc = "decoded" /\ IsBitString(binary) /\ Len(binary) > Width(dataType)) =>
        out = Err("Binary string exceeds " \o ToString(Width(dataType))
                  \o " bits for " \o dataType \o ".")

LengthExceededWitness ==
    /\ pc = "decoded"
    /\ dataType = "Int8"
    /\ binary = Repeat("0", 9)
    /\ out = Err("Binary string exceeds 8 bits for Int8.")

\* C9: for every layout and every string with a character other than '0'
\* and '1' the decoder returns the invalid-binary-string error, whatever the
\* length of the string.
InvalidCharacter ==
    (pc = "decoded" /\ ~IsBitString(binary)) => out = Err("Invalid binary string.")

InvalidCharacterWitness ==
    /\ pc = "decoded"
    /\ ~IsBitString(binary)
    /\ Len(binary) > Width(dataType)
    /\ out = Err("Invalid binary string.")

\* C10: for a bit string b whose length is a multiple of 4,
\* convertHexToBinary(convertBinaryToHex(b)) returns exactly b.
HexRoundTrip ==
    (pc = "hexRoundTrip" /\ IsBitString(binary) /\ Len(binary) % 4 = 0) =>
        back = Ok(binary)

HexRoundTripWitness ==
    /\ pc = "hexRoundTrip"
    /\ binary = <<"0", "0", "0", "0", "0", "0", "1", "0">>
    /\ out.value = <<"0", "2">>
    /\ back = Ok(binary)

\* C11: convertBinaryToHex of a non-empty bit string b has ceil(len(b) / 4)
\* characters, each an uppercase hexadecimal digit, and its digits are the
\* nibbles of b counted from the right end (b left-padded with '0' to a
\* multiple of 4), so it denotes the number b denotes; for the empty string
\* and for a string with a character other than '0' and '1' it is empty.
BinaryToHexDigits ==
    pc = "hexed" =>
        IF binary = <<>> \/ ~IsBitString(binary)
        THEN out = Ok(<<>>)
        ELSE /\ out.ok
             /\ Len(out.value) = (Len(binary) + 3) \div 4
             /\ \A i \in 1..Len(out.value) :
                    out.value[i] =
                        UpperHexDigits[NibbleFromRight(binary, Len(out.value) - i) + 1]

BinaryToHexDigitsWitness ==
    /\ pc = "hexed"
    /\ binary = <<"1", "1", "0", "1", "0">>
    /\ out = Ok(<<"1", "A">>)

\* C12: with all white space removed from the input, convertHexToBinary
\* returns the invalid-hexadecimal error exactly when a remaining character
\* is not one of 0-9, a-f, A-F; otherwise it returns four bits per digit,
\* the i-th group being the zero-padded binary numeral of the i-th digit,
\* the same for a lowercase and an uppercase letter.
HexToBinaryDigits ==
    pc = "unhexed" =>
        LET digits == SelectSeq(hexString, IsNotSpace)
            valid  == \A i \in 1..Len(digits) : IsHexDigit(digits[i])
        IN  /\ (out = Err("Invalid hexadecimal string.")) <=> ~valid
            /\ valid =>
                /\ out.ok
                /\ Len(out.value) = 4 * Len(digits)
                /\ \A i \in 1..Len(digits) : \A j \in 0..3 :
                       out.value[4 * i - j] =
                           (IF (HexValue(digits[i]) \div 2^j) % 2 = 1 THEN "1" ELSE "0")

HexToBinaryDigitsWitness ==
    /\ pc = "unhexed"
    /\ hexString = <<"a", " ", "F">>
    /\ out = Ok(<<"1", "0", "1", "0", "1", "1", "1", "1">>)

\* C13: for an integer layout and a bit string b, formatBinaryString returns
\* b cut into chunks separated by single spaces, right-aligned: removing the
\* spaces gives back b, every chunk but possibly the first has 8 characters
\* and the first has 1 to 8; the empty string gives the empty string.
IntegerGrouping ==
    (pc = "formatted" /\ dataType \in IntegerTypes) =>
        LET s == out.value
        IN  IF binary = <<>> THEN s = <<>>
            ELSE /\ SelectSeq(s, IsNotSpace) = binary
                 /\ \A i \in 1..Len(s) : (s[i] = " ") <=> ((Len(s) - i + 1) % 9 = 0)
                 /\ Len(s) % 9 # 0

IntegerGroupingWitness ==
    /\ pc = "formatted"
    /\ dataType = "Int16"
    /\ binary = Repeat("1", 9)
    /\ out.value = <<"1", " ">> \o Repeat("1", 8)

\* C14: for a float layout with exponent length e (8 for Float32, 11 for
\* Float64) and a non-empty bit string of length n up to the width,
\* formatBinaryString returns the input cut after 1 and after 1 + e
\* characters: one segment if n = 1, two if 1 < n <= 1 + e, three otherwise
\* (of lengths 1, e and width - 1 - e at full width), joined by single
\* spaces, with no empty segment and no leading or trailing space; removing
\* the spaces gives back the input.
FloatGrouping ==
    (pc = "formatted" /\ dataType \in FloatTypes /\ binary # <<>>
        /\ Len(binary) <= Width(dataType)) =>
        LET s        == out.value
            n        == Len(binary)
            e        == IF dataType = "Float32" THEN 8 ELSE 11
            segments == IF n = 1 THEN 1 ELSE IF n <= 1 + e THEN 2 ELSE 3
        IN  /\ SelectSeq(s, IsNotSpace) = binary
            /\ Len(s) = n + segments - 1
            /\ {i \in 1..Len(s) : s[i] = " "} =
                   (IF segments >= 2 THEN {2} ELSE {}) \cup
                   (IF segments = 3 THEN {e + 3} ELSE {})
            /\ s[1] # " " /\ s[Len(s)] # " "

FloatGroupingWitness ==
    /\ pc = "formatted"
    /\ dataType = "Float64"
    /\ binary = Repeat("1", 64)
    /\ out.value = <<"1", " ">> \o Repeat("1", 11) \o <<" ">> \o Repeat("1", 52)

\* C15: for each of the eight layouts, every number passed to
\* convertDecimalToBinary and every string passed to convertBinaryToDecimal
\* and to convertHexToBinary gives a success value or an { error } object:
\* no call ends in an exception.
ErrorsAreValues ==
    /\ pc \in {"encoded", "decoded", "unhexed"} => IsResult(out)
    /\ pc \in {"roundTrip", "hexRoundTrip"} => IsResult(back)

ErrorsAreValuesWitness ==
    /\ pc = "decoded"
    /\ dataType = "Float64"
    /\ Len(binary) = 64
    /\ out.ok

\* C16: for a float layout L and a finite number v that is a value of L,
\* encoding v and decoding the result returns v itself, -0 as -0; for NaN
\* it returns a NaN.
FloatRoundTrip ==
    dataType \in FloatTypes =>
        /\ (pc = "encoded" /\ (Representable(decimal, dataType) \/ decimal = NaN)) => out.ok
        /\ (pc = "roundTrip" /\ Representable(decimal, dataType)) => back = Ok(decimal)
        /\ (pc = "roundTrip" /\ decimal = NaN) => back = Ok(NaN)

FloatRoundTripWitness ==
    /\ pc = "roundTrip"
    /\ dataType = "Float32"
    /\ decimal = NegZero
    /\ out = Ok(<<"1">> \o Repeat("0", 31))
    /\ back = Ok(NegZero)

\* C17: for a finite non-zero v and a precision p at which the fixed-point
\* rendering of v shows only zero digits (|v| < 10^-(p+1), as for v = 1e-200
\* and p = 15), formatDecimalForDisplay(v, p) of src/App.tsx is not the
\* all-zero string but a string in exponential notation.
SmallMagnitudeFallback ==
    (pc = "displayed" /\ shown.k = "dec" /\ shown.n < -precision) =>
        /\ \E i \in 1..Len(out.value) : out.value[i] \in {"1", "2", "3", "4", "5", "6", "7", "8", "9"}
        /\ \E i \in 1..Len(out.value) : out.value[i] = "e"

ErrorKeepsOtherField ==
    [][/\ (HandleDecimalChange /\ error' # null) =>
            /\ decimalError' = error'
            /\ binaryError' = null
            /\ binaryValue' = binaryValue
       /\ (HandleBinaryHexChange /\ error' # null) =>
            /\ binaryError' = error'
            /\ decimalError' = null
            /\ decimalValue' = decimalValue]_vars

\* C19, amended: when the user edits one input and the conversion fails, the
\* error message is shown only under the edited input and the stored content
\* of the other input becomes the empty string.
ErrorClearsOtherField ==
    [][/\ (HandleDecimalChange /\ error' # null) =>
            /\ decimalError' = error'
            /\ binaryError' = null
            /\ binaryValue' = <<>>
       /\ (HandleBinaryHexChange /\ error' # null) =>
            /\ binaryError' = error'
            /\ decimalError' = null
            /\ decimalValue' = <<>>]_vars

ErrorClearsOtherFieldWitness ==
    /\ dataType = "Int8"
    /\ lastChanged = "decimal"
    /\ decimalValue = <<"3", "0", "0">>
    /\ error = "Value out of range for Int8."
    /\ decimalError = error
    /\ binaryError = null
    /\ binaryValue = <<>>
    /\ rendered.binaryValue = <<"0", "0", "0", "0", "0", "0", "0", "1">>

\* C20: whenever the App formats a decoded float for display, the precision
\* it passes is an integer in 0..10 when Float32 is selected and in 0..20
\* when Float64 is selected; a precision of 11..20 chosen under Float64 is
\* not used after the switch to Float32.
PrecisionRange ==
    lastFormat # NoFormat =>
        /\ lastFormat.type = dataType
        /\ lastFormat.type = "Float32" => lastFormat.precision \in 0..10
        /\ lastFormat.type = "Float64" => lastFormat.precision \in 0..20
        /\ lastFormat.type \in {"Float32", "Float64"}

PrecisionRangeWitness ==
    /\ lastFormat = FormatCall("Float32", 10)
    /\ binaryValue = <<"1">>
    /\ decimalValue = <<"0", ".">> \o Repeat("0", 10)

\* C21: for every integer layout, convertBinaryToDecimal of the empty bit
\* string is padded to the full width of zeros and returns the number 0, not
\* an error.
EmptyIntegerDecodesToZero ==
    (pc = "decoded" /\ binary = <<>> /\ dataType \in IntegerTypes) => out = Ok(Zero)

\* the string is a decimal literal whose digits before any exponent are all
\* zeros: it is read back as the number zero
DenotesZero(s) ==
    LET es       == {i \in 1..Len(s) : s[i] = "e"}
        mantissa == SubSeq(s, 1, IF es = {} THEN Len(s) ELSE First(es) - 1)
    IN  /\ \E i \in 1..Len(mantissa) : mantissa[i] = "0"
        /\ \A i \in 1..Len(mantissa) : mantissa[i] \in {"-", "0", "."}

\* the nearest multiple of 10^-p of the number 0.digits * 10^n is zero
RoundsToZero(x, p) ==
    x.n + p < 0 \/ (x.n + p = 0 /\ x.digits[1] \in {"1", "2", "3", "4"})

\* the string has the form [-]d[.d..d]e[+-]d..d with p digits after the point
IsExponentialForm(s, p) ==
    LET u == IF s # <<>> /\ s[1] = "-" THEN Tail(s) ELSE s
        m == IF p = 0 THEN 1 ELSE p + 2
    IN  /\ Len(u) >= m + 3
        /\ IsDecimalDigit(u[1]) /\ u[1] # "0"
        /\ p > 0 => u[2] = "." /\ \A i \in 3..m : IsDecimalDigit(u[i])
        /\ u[m + 1] = "e"
        /\ u[m + 2] \in {"+", "-"}
        /\ \A i \in (m + 3)..Len(u) : IsDecimalDigit(u[i])

HasMinusSign(x) ==
    CASE x.k = "negzero" -> TRUE
      [] x.k = "int" -> x.hi < 0 \/ (x.hi = 0 /\ x.lo < 0)
      [] x.k \in {"fin", "inf"} -> x.neg
      [] OTHER -> FALSE

\* the value of the eight characters s[8i+1..8i+8], the first one weighing 128
ByteAt(s, i) ==
    LET bit(j) == IF s[8 * i + j] = "1" THEN 1 ELSE 0
    IN  128 * bit(1) + 64 * bit(2) + 32 * bit(3) + 16 * bit(4)
            + 8 * bit(5) + 4 * bit(6) + 2 * bit(7) + bit(8)

\* C23: for each float layout and every bit string b of exactly the width of
\* the layout, byte i of the buffer that convertBinaryToDecimal fills is the
\* value of b's characters 8i..8i+7, most significant first, and the output
\* loop of convertDecimalToBinary writes that buffer as b again; the first
\* character of b is the sign of the decoded number and the first character
\* of every encoder output is the sign of the encoded number (big-endian
\* reads and writes).
BigEndianBothWays ==
    dataType \in FloatTypes =>
        LET bits == DATA_TYPE_DETAILS[dataType].bits
        IN  /\ (pc = "decoded" /\ Len(binary) = bits
                    /\ \A i \in 1..bits : binary[i] \in {"0", "1"}) =>
                   /\ \A i \in 0..((bits \div 8) - 1) :
                          BufferOfString(binary, bits)[i + 1] = ByteAt(binary, i)
                   /\ BufferString(BufferOfString(binary, bits)) = binary
                   /\ out.ok
                   /\ out.value # NaN => (HasMinusSign(out.value) <=> binary[1] = "1")
            /\ (pc = "encoded" /\ out.ok) =>
                   /\ Len(out.value) = bits
                   /\ decimal # NaN => (HasMinusSign(decimal) <=> out.value[1] = "1")

BigEndianBothWaysWitness ==
    /\ pc = "decoded"
    /\ dataType = "Float32"
    /\ binary = <<"1", "0">> \o Repeat("1", 28) \o <<"0", "1">>
    /\ BufferOfString(binary, 32) = <<191, 255, 255, 253>>
    /\ out.ok
    /\ HasMinusSign(out.value)

\* C24: once the user has typed a text into the decimal field, the text stays
\* in the field through every precision-slider move, Bin/Hex mode switch and
\* effect run, until a decimal edit, a binary/hex edit, Clear or a data-type
\* change.
DecimalTypingKept ==
    [][(lastChanged = "decimal" /\ (SetPrecision \/ HandleModeChange \/ RunEffects)) =>
           decimalValue' = decimalValue]_vars

\* C25: in the App with the merged effect, when the effect runs after the
\* precision has changed and binaryValue decodes for the selected float
\* layout, decimalValue becomes formatDecimalForDisplay of the decoded number
\* at the new precision, also when the decimal field was the last one
\* edited; when the precision has not changed and the decimal field was
\* last edited, the effect leaves decimalValue unchanged.
PrecisionChangeReformats ==
    [][MergedRunEffects =>
          /\ (/\ rendered.precision # precision
               /\ isFloatType
               /\ binaryValue # <<>>
               /\ convertBinaryToDecimal(binaryValue, dataType).ok) =>
                 decimalValue' =
                     formatDecimalForDisplayFallback(
                         ExactDecimal(convertBinaryToDecimal(binaryValue, dataType).value),
                         precision).value
          /\ (rendered.precision = precision /\ lastChanged = "decimal") =>
                 decimalValue' = decimalValue]_vars

PrecisionChangeReformatsWitness ==
    /\ dataType = "Float32"
    /\ lastChanged = "decimal"
    /\ precision = 10
    /\ prevPrecisionRef = 10
    /\ binaryValue = <<"0", "0">> \o Repeat("1", 8) \o Repeat("0", 22)
    /\ decimalValue = <<"1", ".", "5">> \o Repeat("0", 9)

\* binaryValue is what handleDecimalChange computes from the decimal text
DecimalSideAgrees ==
    \E result \in {convertDecimalToBinary(parseFloat(decimalValue), dataType)} :
        /\ result.ok
        /\ binaryValue = result.value
        /\ Len(binaryValue) = DATA_TYPE_DETAILS[dataType].bits

\* decimalValue is the display string of the number binaryValue decodes to
BinarySideAgrees ==
    \E result \in {convertBinaryToDecimal(binaryValue, dataType)} :
        /\ result.ok
        /\ decimalValue = DecimalString(result.value, dataType, precision)

\* C26: in every state of the App with the effects settled, error null and
\* both fields non-empty, either the decimal field was last edited and
\* binaryValue is convertDecimalToBinary(parseFloat(decimalValue), dataType),
\* of the layout's width, or the binary / hexadecimal field was last edited
\* and decimalValue is the display string of
\* convertBinaryToDecimal(binaryValue, dataType).
FieldsDenoteSameValue ==
    (EffectsSettled /\ error = null /\ decimalValue # <<>> /\ binaryValue # <<>>) =>
        \/ lastChanged = "decimal" /\ DecimalSideAgrees
        \/ lastChanged = "binary" /\ BinarySideAgrees

\* both fields empty, no error, no field last edited
FieldsReset ==
    /\ decimalValue = <<>>
    /\ binaryValue = <<>>
    /\ error = null
    /\ lastChanged = null

\* C27: clearInputs and handleDataTypeChange, and the effects that run after
\* them, leave both fields empty, error null and lastChanged null; Clear and
\* its effects keep dataType, precision and the Bin / Hex mode; a change of
\* layout keeps the Bin / Hex mode, and the effects after it set precision
\* to 7 for Float32 and to 15 for Float64 and keep it for an integer layout.
ResetOnClearAndTypeChange ==
    [][/\ ClearInputs =>
             FieldsReset' /\ UNCHANGED <<dataType, precision, binaryInputMode>>
       /\ HandleDataTypeChange =>
             FieldsReset' /\ UNCHANGED binaryInputMode
       /\ (RunEffects /\ lastChanged = null) =>
             /\ FieldsReset'
             /\ UNCHANGED <<dataType, binaryInputMode>>
             /\ precision' =
                   IF rendered.dataType = dataType THEN precision
                   ELSE IF dataType = "Float32" THEN 7
                   ELSE IF dataType = "Float64" THEN 15
                   ELSE precision]_vars

ResetOnClearAndTypeChangeWitness ==
    /\ dataType = "Float64"
    /\ precision = 15
    /\ binaryInputMode = "hex"
    /\ FieldsReset
    /\ EffectsSettled
    /\ lastFormat = NoFormat

====
